---------------------------- MODULE Spec2Model ----------------------------
(***************************************************************************)
(* WebVTT parsing / transformation / serialization core of the             *)
(* interactive-transcript module.                                          *)
(*                                                                         *)
(* Text is modelled as sequences of one-character strings, so that the     *)
(* regular expressions, splits and trims of the source are computed        *)
(* character by character.  JavaScript numbers are modelled as IEEE-754    *)
(* binary64 values: a non-negative double below 2^31 is a record           *)
(* [i |-> integer part, f |-> FracBits binary fraction digits], and every  *)
(* arithmetic operation rounds to 53 significant bits, ties to even.       *)
(***************************************************************************)
EXTENDS Integers, Sequences, FiniteSets, TLC

(***************************************************************************)
(* Generic sequence helpers                                                *)
(***************************************************************************)
Range(s) == {s[i] : i \in DOMAIN s}

Min2(a, b) == IF a <= b THEN a ELSE b

Max2(a, b) == IF a >= b THEN a ELSE b

\* e bound to a name by value: Bind(e, LAMBDA x : body) is body with x the value of e
Bind(e, F(_)) == CHOOSE y \in {F(x) : x \in {e}} : TRUE

RECURSIVE Flatten(_)
Flatten(ss) == IF ss = <<>> THEN <<>> ELSE Head(ss) \o Flatten(Tail(ss))

(***************************************************************************)
(* Characters                                                              *)
(***************************************************************************)
DigitChars == <<"0", "1", "2", "3", "4", "5", "6", "7", "8", "9">>

IsDigit(c) == c \in Range(DigitChars)

\* JavaScript's \s restricted to the characters the model uses
IsSpace(c) == c \in {" ", "\t", "\n", "\r"}

DigitVal(c) == (CHOOSE i \in DOMAIN DigitChars : DigitChars[i] = c) - 1

\* parseInt(s, 10) of a non-empty string of decimal digits
RECURSIVE ParseInt(_)
ParseInt(s) ==
    IF s = <<>> THEN 0
    ELSE 10 * ParseInt(SubSeq(s, 1, Len(s) - 1)) + DigitVal(s[Len(s)])

AllDigits(s) == \A i \in DOMAIN s : IsDigit(s[i])

\* Number.prototype.toString() of a non-negative integer
RECURSIVE NatToString(_)
NatToString(n) ==
    IF n < 10 THEN <<DigitChars[n + 1]>>
    ELSE NatToString(n \div 10) \o <<DigitChars[(n % 10) + 1]>>

\* Number.prototype.toString() of an integer
IntToString(n) == IF n < 0 THEN <<"-">> \o NatToString(-n) ELSE NatToString(n)

\* a % b of JavaScript for integers a and b > 0: the sign of a
JsRem(a, b) == IF a < 0 THEN -((-a) % b) ELSE a % b

\* String.prototype.padStart(width, '0')
RECURSIVE PadStart(_, _)
PadStart(s, width) == IF Len(s) >= width THEN s ELSE PadStart(<<"0">> \o s, width)

SetMin(S) == CHOOSE x \in S : \A y \in S : x <= y

SetMax(S) == CHOOSE x \in S : \A y \in S : x >= y

\* the k-th smallest element of a set of numbers
Nth(S, k) == CHOOSE x \in S : Cardinality({y \in S : y < x}) = k - 1

\* String.prototype.trim()
Trim(s) ==
    LET ns == {i \in DOMAIN s : ~IsSpace(s[i])}
    IN  IF ns = {} THEN <<>> ELSE SubSeq(s, SetMin(ns), SetMax(ns))

\* s.startsWith(p)
StartsWith(s, p) == Len(s) >= Len(p) /\ SubSeq(s, 1, Len(p)) = p

\* the positions at which the literal p occurs in s
Occurrences(s, p) == {i \in 1..(Len(s) - Len(p) + 1) : SubSeq(s, i, i + Len(p) - 1) = p}

\* the pieces of s between the separators of length n that start at the places occ
SplitAt(s, n, occ) ==
    [k \in 1..(Cardinality(occ) + 1) |->
        SubSeq(s,
               IF k = 1 THEN 1 ELSE Nth(occ, k - 1) + n,
               IF k = Cardinality(occ) + 1 THEN Len(s) ELSE Nth(occ, k) - 1)]

\* s.split(p) for a literal separator p that cannot overlap itself
SplitOn(s, p) == SplitAt(s, Len(p), Occurrences(s, p))

\* a carriage return that ended a piece before a line feed belongs to the separator
StripCR(raw) ==
    [k \in 1..Len(raw) |->
        IF k < Len(raw) /\ raw[k] # <<>> /\ raw[k][Len(raw[k])] = "\r"
        THEN SubSeq(raw[k], 1, Len(raw[k]) - 1) ELSE raw[k]]

\* s.split(/\r?\n/)
SplitLines(s) == StripCR(SplitOn(s, <<"\n">>))

\* the maximal runs of characters of s that are not white space
Words(s) ==
    Bind({i \in DOMAIN s : ~IsSpace(s[i]) /\ (i = 1 \/ IsSpace(s[i - 1]))}, LAMBDA starts :
    Bind({i \in DOMAIN s : ~IsSpace(s[i]) /\ (i = Len(s) \/ IsSpace(s[i + 1]))}, LAMBDA ends :
        [k \in 1..Cardinality(starts) |-> SubSeq(s, Nth(starts, k), Nth(ends, k))]))

\* s.split(/\s+/): white space at either end of s yields an empty first or last piece
SplitSpaces(s) ==
    IF s = <<>> THEN << <<>> >>
    ELSE Bind(Words(s), LAMBDA words :
            IF words = <<>> THEN << <<>>, <<>> >>
            ELSE (IF IsSpace(s[1]) THEN << <<>> >> ELSE <<>>) \o words \o
                 (IF IsSpace(s[Len(s)]) THEN << <<>> >> ELSE <<>>))

\* lines.join('\n'), from the k-th line on
RECURSIVE JoinFrom(_, _)
JoinFrom(ls, k) ==
    IF k > Len(ls) THEN <<>>
    ELSE IF k = Len(ls) THEN ls[k]
    ELSE ls[k] \o <<"\n">> \o JoinFrom(ls, k + 1)

JoinLines(ls) == JoinFrom(ls, 1)

UpperChars == <<"A", "B", "C", "D", "E", "F", "G", "H", "I", "J", "K", "L", "M",
                "N", "O", "P", "Q", "R", "S", "T", "U", "V", "W", "X", "Y", "Z">>

LowerChars == <<"a", "b", "c", "d", "e", "f", "g", "h", "i", "j", "k", "l", "m",
                "n", "o", "p", "q", "r", "s", "t", "u", "v", "w", "x", "y", "z">>

IsUpper(c) == c \in Range(UpperChars)

IsLetter(c) == IsUpper(c) \/ c \in Range(LowerChars)

\* String.prototype.toLowerCase()
ToLower(s) ==
    [i \in DOMAIN s |->
        IF IsUpper(s[i]) THEN LowerChars[CHOOSE k \in DOMAIN UpperChars : UpperChars[k] = s[i]]
        ELSE s[i]]

(***************************************************************************)
(* Regular-expression matching.  A position is the index of the next       *)
(* character to read; each operator maps the set of positions at which a   *)
(* sub-pattern may start to the set at which it may end.                   *)
(***************************************************************************)
\* \s*
SkipSpaces(s, P) ==
    {q \in 1..(Len(s) + 1) : \E p \in P : p <= q /\ \A i \in p..(q - 1) : IsSpace(s[i])}

\* \d{lo,hi}
Digits(s, P, lo, hi) ==
    {q \in 1..(Len(s) + 1) :
        \E p \in P : (q - p) \in lo..hi /\ \A i \in p..(q - 1) : IsDigit(s[i])}

\* a literal
Lit(s, P, lit) ==
    {p + Len(lit) : p \in {q \in P : q + Len(lit) - 1 <= Len(s) /\
                                     SubSeq(s, q, q + Len(lit) - 1) = lit}}

\* .* (the dot matches no line terminator)
AnyRun(s, P) ==
    LET stops == {i \in DOMAIN s : s[i] \in {"\n", "\r"}}
    IN  {q \in 1..(Len(s) + 1) : \E p \in P : p <= q /\ \A t \in stops : t < p \/ t >= q}

(***************************************************************************)
(* IEEE-754 binary64 arithmetic on the values the code computes with.      *)
(* The fraction of a double is kept as NumLimbs limbs of LimbBits binary   *)
(* digits each, most significant first: <<l1, l2, ...>> means              *)
(* l1/LimbBase + l2/LimbBase^2 + ...  Binary places are numbered from 1,   *)
(* place p having weight 2^-p.                                             *)
(***************************************************************************)
LimbBits == 16

NumLimbs == 4

\* binary places kept after the point: enough for 53 significant bits of any
\* value not below 1/1024
FracBits == NumLimbs * LimbBits

\* significand width of a JavaScript number
Mantissa == 53


\* the powers of two up to one limb, tabulated
Pow2Table == [n \in 0..LimbBits |-> 2^n]

Pow2(n) == Pow2Table[n]

LimbBase == Pow2(LimbBits)

RECURSIVE Log2Floor(_)
Log2Floor(n) == IF n <= 1 THEN 0 ELSE 1 + Log2Floor(n \div 2)

ZeroFrac == [j \in 1..NumLimbs |-> 0]

\* the binary digit at place p of a fraction
BitAt(f, p) ==
    LET j == ((p - 1) \div LimbBits) + 1
        o == (p - 1) % LimbBits
    IN  (f[j] \div Pow2(LimbBits - 1 - o)) % 2

\* place of the first 1 digit of a fraction, 0 if it is zero
LeadPos(f) ==
    LET nz == {j \in 1..NumLimbs : f[j] # 0} IN
    IF nz = {} THEN 0
    ELSE LET j == SetMin(nz) IN (j - 1) * LimbBits + (LimbBits - Log2Floor(f[j]))

\* the remainder left after j limbs of the quotient r/d, for 0 <= r < d
RECURSIVE DivRem(_, _, _)
DivRem(r, d, j) == IF j = 0 THEN r ELSE (DivRem(r, d, j - 1) * LimbBase) % d

\* the first NumLimbs limbs of r/d, for 0 <= r < d (long division, digits truncated)
DivLimbs(r, d) == [j \in 1..NumLimbs |-> (DivRem(r, d, j - 1) * LimbBase) \div d]

\* carry out of limbs j.. of the sum a + b
RECURSIVE CarryFrom(_, _, _)
CarryFrom(a, b, j) ==
    IF j > NumLimbs THEN 0 ELSE (a[j] + b[j] + CarryFrom(a, b, j + 1)) \div LimbBase

\* a + b on fractions; c is the carry into the integer part
AddFrac(a, b) ==
    [c |-> CarryFrom(a, b, 1),
     f |-> [j \in 1..NumLimbs |-> (a[j] + b[j] + CarryFrom(a, b, j + 1)) % LimbBase]]

\* the fraction 2^-p, for 1 <= p <= FracBits
UnitAt(p) ==
    [j \in 1..NumLimbs |->
        IF j = ((p - 1) \div LimbBits) + 1
        THEN Pow2(LimbBits - 1 - ((p - 1) % LimbBits)) ELSE 0]

\* the digits of f at places 1..keep, the others cleared
Truncate(f, keep) ==
    [j \in 1..NumLimbs |->
        IF j * LimbBits <= keep THEN f[j]
        ELSE IF (j - 1) * LimbBits >= keep THEN 0
        ELSE f[j] - (f[j] % Pow2(j * LimbBits - keep))]

\* round a fraction to `keep` binary places, to nearest, ties to even; sticky says
\* that non-zero digits follow the FracBits given ones, intOdd that the integer
\* part is odd; c is the carry into the integer part
RoundBits(f, keep, sticky, intOdd) ==
    IF keep >= FracBits THEN [c |-> 0, f |-> f]
    ELSE LET guard  == BitAt(f, keep + 1)
             rest   == sticky \/ f # Truncate(f, keep + 1)
             lsbOdd == IF keep = 0 THEN intOdd ELSE BitAt(f, keep) = 1
             kept   == Truncate(f, keep)
         IN  IF guard = 1 /\ (rest \/ lsbOdd)
             THEN IF keep = 0 THEN [c |-> 1, f |-> ZeroFrac] ELSE AddFrac(kept, UnitAt(keep))
             ELSE [c |-> 0, f |-> kept]

\* binary places a double with integer part i and fraction f retains
SigPlaces(i, f) ==
    IF i >= 1 THEN (Mantissa - 1) - Log2Floor(i)
    ELSE LeadPos(f) + (Mantissa - 1)

MkDbl(i, f) == [i |-> i, f |-> f]

DblOfInt(n) == MkDbl(n, ZeroFrac)

\* the double with integer part q and the rounded fraction rnd
DblOfRound(q, rnd) == MkDbl(q + rnd.c, rnd.f)

\* the double nearest to q + r/d, for integers q >= 0 and 0 <= r < d, given the
\* first limbs fr of r/d
NearestDbl(q, r, d, fr) ==
    DblOfRound(q, RoundBits(fr, SigPlaces(q, fr), DivRem(r, d, NumLimbs) # 0, q % 2 = 1))

\* the double r / d of two integers 0 <= r < d (one correctly rounded division)
FlDivInt(r, d) == NearestDbl(0, r, d, DivLimbs(r, d))

\* the double q + x of an integer q >= 0 and a double 0 <= x < 1 (one rounded addition)
FlAddInt(q, x) ==
    IF q = 0 THEN x
    ELSE DblOfRound(q, RoundBits(x.f, SigPlaces(q, x.f), FALSE, q % 2 = 1))

\* the double denoted by a decimal literal with three decimals, k/1000
FlLiteral(k) == NearestDbl(k \div 1000, k % 1000, 1000, DivLimbs(k % 1000, 1000))

\* carry out of limbs j.. of the exact product f * m
RECURSIVE MulCarry(_, _, _)
MulCarry(f, m, j) ==
    IF j > NumLimbs THEN 0 ELSE (f[j] * m + MulCarry(f, m, j + 1)) \div LimbBase

\* the exact product of a fraction and a natural number m: integer part n, fraction f
MulFrac(f, m) ==
    [n |-> MulCarry(f, m, 1),
     f |-> [j \in 1..NumLimbs |-> (f[j] * m + MulCarry(f, m, j + 1)) % LimbBase]]

\* Math.floor of the double nearest to the exact product p
FloorOfProduct(p) == p.n + RoundBits(p.f, SigPlaces(p.n, p.f), FALSE, p.n % 2 = 1).c

\* Math.floor(x * m) for a double 0 <= x < 1: the product is rounded, then floored
FloorMulFrac(f, m) == FloorOfProduct(MulFrac(f, m))

\* a < b on fractions
FracLess(a, b) ==
    \E j \in 1..NumLimbs : a[j] < b[j] /\ \A k \in 1..(j - 1) : a[k] = b[k]

DblLess(a, b) == a.i < b.i \/ (a.i = b.i /\ FracLess(a.f, b.f))

DblLeq(a, b) == a = b \/ DblLess(a, b)

(***************************************************************************)
(* Timestamp grammar                                                       *)
(***************************************************************************)
DigitGroup(g, lo, hi) == Len(g) >= lo /\ Len(g) <= hi /\ AllDigits(g)

\* the capture groups of /^(?:(\d{1,2}):)?(\d{1,2}):(\d{2})\.(\d{3})$/ on a token,
\* or ok = FALSE when the pattern does not match
TimestampMatch(ts) ==
    Bind(SplitOn(ts, <<":">>), LAMBDA colon :
    Bind(SplitOn(colon[Len(colon)], <<".">>), LAMBDA dot :
        IF /\ Len(colon) \in {2, 3}
           /\ Len(dot) = 2
           /\ DigitGroup(dot[1], 2, 2)
           /\ DigitGroup(dot[2], 3, 3)
           /\ DigitGroup(colon[Len(colon) - 1], 1, 2)
           /\ (Len(colon) = 3 => DigitGroup(colon[1], 1, 2))
        THEN [ok |-> TRUE,
              h  |-> IF Len(colon) = 3 THEN colon[1] ELSE <<>>,
              m  |-> colon[Len(colon) - 1],
              s  |-> dot[1],
              ms |-> dot[2]]
        ELSE [ok |-> FALSE]))

\* hours * 3600 + minutes * 60 + seconds + milliseconds / 1000
SecondsOf(hours, minutes, seconds, milliseconds) ==
    FlAddInt(hours * 3600 + minutes * 60 + seconds, FlDivInt(milliseconds, 1000))

parseWebVTTTimestamp_minutesAnyValue(timestamp) ==
    Bind(TimestampMatch(timestamp), LAMBDA g :
        IF ~g.ok THEN [ok |-> FALSE]
        ELSE IF ParseInt(g.s) >= 60 \/ ParseInt(g.ms) >= 1000 THEN [ok |-> FALSE]
        ELSE [ok |-> TRUE,
              v  |-> SecondsOf(IF g.h # <<>> THEN ParseInt(g.h) ELSE 0,
                               ParseInt(g.m), ParseInt(g.s), ParseInt(g.ms))])

\* parseWebVTTTimestamp: ok = FALSE stands for the thrown Error
parseWebVTTTimestamp(timestamp) ==
    Bind(TimestampMatch(timestamp), LAMBDA g :
        IF ~g.ok THEN [ok |-> FALSE]
        ELSE IF ParseInt(g.m) >= 60 \/ ParseInt(g.s) >= 60 \/ ParseInt(g.ms) >= 1000
             THEN [ok |-> FALSE]
        ELSE [ok |-> TRUE,
              v  |-> SecondsOf(IF g.h # <<>> THEN ParseInt(g.h) ELSE 0,
                               ParseInt(g.m), ParseInt(g.s), ParseInt(g.ms))])

\* formatWebVTTTimestamp.  For the values the model formats (the fraction is at
\* most 0.999 plus one rounding error; a negative value is a whole number)
\* Math.floor(seconds / 3600), Math.floor((seconds % 3600) / 60) and
\* Math.floor(seconds % 60) are the floored quotients and the remainders of the
\* integer part; seconds % 1 is exact and its product with 1000 is rounded before
\* it is floored.
formatWebVTTTimestamp(seconds) ==
    PadStart(IntToString(seconds.i \div 3600), 2) \o <<":">> \o
    PadStart(IntToString(JsRem(seconds.i, 3600) \div 60), 2) \o <<":">> \o
    PadStart(IntToString(JsRem(seconds.i, 60)), 2) \o <<".">> \o
    PadStart(NatToString(FloorMulFrac(seconds.f, 1000)), 3)

(***************************************************************************)
(* WebVTT parser (src/lib/transcript/index.ts).  Line indices are 0-based  *)
(* as in the source; LineAt reads lines[i].                                *)
(***************************************************************************)
LineAt(lines, i) == lines[i + 1]

IsBlank(line) == Trim(line) = <<>>

Arrow == <<"-", "-", ">">>

\* (?:\d{1,2}:)?\d{1,2}:\d{2}\.\d{3}
TimestampShape(s, P) ==
    LET hrs  == P \cup Lit(s, Digits(s, P, 1, 2), <<":">>)
        mins == Lit(s, Digits(s, hrs, 1, 2), <<":">>)
        secs == Lit(s, Digits(s, mins, 2, 2), <<".">>)
    IN  Digits(s, secs, 3, 3)

\* isTimingLine: /^\s*TS\s*-->\s*TS/ with TS the timestamp shape; the pattern is
\* not anchored at the end of the line
isTimingLine(line) ==
    LET start == TimestampShape(line, SkipSpaces(line, {1}))
        arrow == Lit(line, SkipSpaces(line, start), Arrow)
    IN  TimestampShape(line, SkipSpaces(line, arrow)) # {}
isMalformedTimingLine_longArrow(line) ==
    LET many       == Len(line) + 1
        tail(P)    == Digits(line, AnyRun(line, Lit(line, AnyRun(line, P), Arrow)), 1, many)
        digits     == Digits(line, SkipSpaces(line, {1}), 1, many)
        digitColon == Digits(line, Lit(line, digits, <<":">>), 1, many)
    IN  tail(digits) # {} \/ tail(digitColon) # {}

\* /^\s*\d+.*->.*\d+/.test(line) || /^\s*\d+:\d+.*->.*\d+/.test(line)
isMalformedTimingLine(line) ==
    LET many       == Len(line) + 1
        tail(P)    == Digits(line, AnyRun(line, Lit(line, AnyRun(line, P), <<"-", ">">>)),
                             1, many)
        digits     == Digits(line, SkipSpaces(line, {1}), 1, many)
        digitColon == Digits(line, Lit(line, digits, <<":">>), 1, many)
    IN  tail(digits) # {} \/ tail(digitColon) # {}

\* findTimingLine: the index of the first of lines[startLine], lines[startLine + 1]
\* that is a timing line, or -1 for null
findTimingLine(lines, startLine) ==
    LET cand == {i \in startLine..(Min2(startLine + 2, Len(lines)) - 1) :
                    isTimingLine(LineAt(lines, i))}
    IN  IF cand = {} THEN -1 ELSE SetMin(cand)

parseTimingLine_strictOrder(line, lineNumber) ==
    Bind(SplitOn(line, Arrow), LAMBDA parts :
        IF Len(parts) # 2 THEN [ok |-> FALSE, line |-> lineNumber]
        ELSE Bind(SplitSpaces(Trim(parts[2])), LAMBDA endAndSettings :
             Bind(parseWebVTTTimestamp(Trim(parts[1])), LAMBDA startTime :
             Bind(parseWebVTTTimestamp(endAndSettings[1]), LAMBDA endTime :
                 IF ~startTime.ok \/ ~endTime.ok THEN [ok |-> FALSE, line |-> lineNumber]
                 ELSE IF DblLess(endTime.v, startTime.v)
                      THEN [ok |-> FALSE, line |-> lineNumber]
                 ELSE [ok |-> TRUE, startTime |-> startTime.v, endTime |-> endTime.v,
                       hasSettings |-> Len(endAndSettings) > 1]))))

\* parseTimingLine: ok = FALSE stands for the thrown WebVTTParseError, line for its
\* line.  Every failure inside the try block (a timestamp that does not parse, or
\* startTime >= endTime) is rethrown by the catch with the same line number.  The
\* settings tokens are parsed leniently and dropped by convertToTranscriptCue; the
\* model keeps only whether there were any.
parseTimingLine(line, lineNumber) ==
    Bind(SplitOn(line, Arrow), LAMBDA parts :
        IF Len(parts) # 2 THEN [ok |-> FALSE, line |-> lineNumber]
        ELSE Bind(SplitSpaces(Trim(parts[2])), LAMBDA endAndSettings :
             Bind(parseWebVTTTimestamp(Trim(parts[1])), LAMBDA startTime :
             Bind(parseWebVTTTimestamp(endAndSettings[1]), LAMBDA endTime :
                 IF ~startTime.ok \/ ~endTime.ok THEN [ok |-> FALSE, line |-> lineNumber]
                 ELSE IF DblLeq(endTime.v, startTime.v)
                      THEN [ok |-> FALSE, line |-> lineNumber]
                 ELSE [ok |-> TRUE, startTime |-> startTime.v, endTime |-> endTime.v,
                       hasSettings |-> Len(endAndSettings) > 1]))))

NoSpeaker == [has |-> FALSE, name |-> <<>>]

Speaker(name) == [has |-> TRUE, name |-> name]

\* the text after position p, its leading white space dropped: \s*(.*)$ with the s flag
RestAfter(text, p) ==
    LET ns == {i \in (p + 1)..Len(text) : ~IsSpace(text[i])}
    IN  IF ns = {} THEN <<>> ELSE SubSeq(text, SetMin(ns), Len(text))

\* the first place of a set of places, 0 for none
FirstOf(places) == IF places = {} THEN 0 ELSE SetMin(places)

\* what \s+([^>]+) captures of the text between <v and the first >: \s+ is greedy
\* but gives back one character when [^>]+ would be empty
VoiceName(inner) ==
    Bind({i \in DOMAIN inner : ~IsSpace(inner[i])}, LAMBDA lead :
        IF lead = {} THEN SubSeq(inner, Len(inner), Len(inner))
        ELSE SubSeq(inner, SetMin(lead), Len(inner)))

\* a colon prefix is a speaker only when shorter than this
ColonSpeakerMaxLen == 50
extractSpeakerFromText_colonFirst(text) ==
    Bind(FirstOf(Occurrences(text, <<">">>)), LAMBDA gt :
    Bind(SubSeq(text, 3, gt - 1), LAMBDA inner :
    Bind(FirstOf(Occurrences(text, <<":">>)), LAMBDA colon :
        IF colon >= 2 /\ colon - 1 < ColonSpeakerMaxLen
        THEN [text    |-> RestAfter(text, colon),
              speaker |-> Speaker(Trim(SubSeq(text, 1, colon - 1)))]
        ELSE IF StartsWith(text, <<"<", "v">>) /\ gt # 0 /\ Len(inner) >= 2 /\ IsSpace(inner[1])
             THEN [text |-> RestAfter(text, gt), speaker |-> Speaker(Trim(VoiceName(inner)))]
        ELSE [text |-> text, speaker |-> NoSpeaker])))

\* the parser's extractSpeakerFromText:
\*   /^<v\s+([^>]+)>\s*(.*)$/s, then /^([^:]+):\s*(.*)$/s with a prefix under 50
extractSpeakerFromText(text) ==
    Bind(FirstOf(Occurrences(text, <<">">>)), LAMBDA gt :
    Bind(SubSeq(text, 3, gt - 1), LAMBDA inner :
    Bind(FirstOf(Occurrences(text, <<":">>)), LAMBDA colon :
        IF StartsWith(text, <<"<", "v">>) /\ gt # 0 /\ Len(inner) >= 2 /\ IsSpace(inner[1])
        THEN [text |-> RestAfter(text, gt), speaker |-> Speaker(Trim(VoiceName(inner)))]
        ELSE IF colon >= 2 /\ colon - 1 < ColonSpeakerMaxLen
             THEN [text    |-> RestAfter(text, colon),
                   speaker |-> Speaker(Trim(SubSeq(text, 1, colon - 1)))]
        ELSE [text |-> text, speaker |-> NoSpeaker])))

CuePrefix == <<"c", "u", "e", "-">>
convertToTranscriptCue_oneBased(webvttCue, index) ==
    Bind(extractSpeakerFromText(webvttCue.text), LAMBDA ex :
        [id        |-> IF webvttCue.id # <<>> THEN webvttCue.id
                       ELSE CuePrefix \o NatToString(index + 1),
         startTime |-> webvttCue.startTime,
         endTime   |-> webvttCue.endTime,
         text      |-> Trim(ex.text),
         speaker   |-> ex.speaker])

\* convertToTranscriptCue; id = <<>> stands for an absent identifier
convertToTranscriptCue(webvttCue, index) ==
    Bind(extractSpeakerFromText(webvttCue.text), LAMBDA ex :
        [id        |-> IF webvttCue.id # <<>> THEN webvttCue.id
                       ELSE CuePrefix \o NatToString(index),
         startTime |-> webvttCue.startTime,
         endTime   |-> webvttCue.endTime,
         text      |-> Trim(ex.text),
         speaker   |-> ex.speaker])

\* first index >= from of a line that is not blank, Len(lines) if none
SkipBlank(lines, from) ==
    LET c == {i \in from..(Len(lines) - 1) : ~IsBlank(LineAt(lines, i))}
    IN  IF c = {} THEN Max2(from, Len(lines)) ELSE SetMin(c)

\* first index >= from of a blank line, Len(lines) if none
SkipToBlank(lines, from) ==
    LET c == {i \in from..(Len(lines) - 1) : IsBlank(LineAt(lines, i))}
    IN  IF c = {} THEN Max2(from, Len(lines)) ELSE SetMin(c)

parseCueBlock_warnsAtNextLine(lines, startLine) ==
    Bind(SkipBlank(lines, startLine), LAMBDA currentLine :
        IF currentLine >= Len(lines)
        THEN [kind |-> "none", nextLine |-> currentLine, warnings |-> <<>>]
        ELSE
    Bind(findTimingLine(lines, currentLine), LAMBDA timingLine :
        IF timingLine = -1
        THEN IF isMalformedTimingLine(LineAt(lines, currentLine))
             THEN [kind |-> "error", line |-> currentLine + 1]
             ELSE [kind |-> "none", nextLine |-> SkipToBlank(lines, currentLine) + 1,
                   warnings |-> <<>>]
        ELSE
    Bind(parseTimingLine(LineAt(lines, timingLine), timingLine + 1), LAMBDA timing :
    Bind(timingLine + 1, LAMBDA textStart :
    Bind(SkipToBlank(lines, textStart), LAMBDA textEnd :
    Bind(SubSeq(lines, textStart + 1, textEnd), LAMBDA textLines :
        IF ~timing.ok THEN [kind |-> "error", line |-> timing.line]
        ELSE [kind     |-> "cue",
              cue      |-> [id        |-> IF timingLine # currentLine
                                          THEN Trim(LineAt(lines, currentLine)) ELSE <<>>,
                            startTime |-> timing.startTime,
                            endTime   |-> timing.endTime,
                            text      |-> JoinLines(textLines)],
              warnings |-> IF textLines = <<>> THEN <<textStart + 1>> ELSE <<>>,
              nextLine |-> textEnd + 1]))))))

parseCueBlock_staysOnSkippedBlock(lines, startLine) ==
    Bind(SkipBlank(lines, startLine), LAMBDA currentLine :
        IF currentLine >= Len(lines)
        THEN [kind |-> "none", nextLine |-> currentLine, warnings |-> <<>>]
        ELSE
    Bind(findTimingLine(lines, currentLine), LAMBDA timingLine :
        IF timingLine = -1
        THEN IF isMalformedTimingLine(LineAt(lines, currentLine))
             THEN [kind |-> "error", line |-> currentLine + 1]
             ELSE [kind |-> "none", nextLine |-> currentLine, warnings |-> <<>>]
        ELSE
    Bind(parseTimingLine(LineAt(lines, timingLine), timingLine + 1), LAMBDA timing :
    Bind(timingLine + 1, LAMBDA textStart :
    Bind(SkipToBlank(lines, textStart), LAMBDA textEnd :
    Bind(SubSeq(lines, textStart + 1, textEnd), LAMBDA textLines :
        IF ~timing.ok THEN [kind |-> "error", line |-> timing.line]
        ELSE [kind     |-> "cue",
              cue      |-> [id        |-> IF timingLine # currentLine
                                          THEN Trim(LineAt(lines, currentLine)) ELSE <<>>,
                            startTime |-> timing.startTime,
                            endTime   |-> timing.endTime,
                            text      |-> JoinLines(textLines)],
              warnings |-> IF textLines = <<>> THEN <<textStart>> ELSE <<>>,
              nextLine |-> textEnd + 1]))))))

\* parseCueBlock.  kind is "cue" (a cue was parsed), "none" (no cue: end of input
\* or skipped non-cue content) or "error" (WebVTTParseError thrown, with its line).
\* A warning is recorded by the line number it cites.
parseCueBlock(lines, startLine) ==
    Bind(SkipBlank(lines, startLine), LAMBDA currentLine :
        IF currentLine >= Len(lines)
        THEN [kind |-> "none", nextLine |-> currentLine, warnings |-> <<>>]
        ELSE
    Bind(findTimingLine(lines, currentLine), LAMBDA timingLine :
        IF timingLine = -1
        THEN IF isMalformedTimingLine(LineAt(lines, currentLine))
             THEN [kind |-> "error", line |-> currentLine + 1]
             ELSE [kind |-> "none", nextLine |-> SkipToBlank(lines, currentLine) + 1,
                   warnings |-> <<>>]
        ELSE
    Bind(parseTimingLine(LineAt(lines, timingLine), timingLine + 1), LAMBDA timing :
    Bind(timingLine + 1, LAMBDA textStart :
    Bind(SkipToBlank(lines, textStart), LAMBDA textEnd :
    Bind(SubSeq(lines, textStart + 1, textEnd), LAMBDA textLines :
        IF ~timing.ok THEN [kind |-> "error", line |-> timing.line]
        ELSE [kind     |-> "cue",
              cue      |-> [id        |-> IF timingLine # currentLine
                                          THEN Trim(LineAt(lines, currentLine)) ELSE <<>>,
                            startTime |-> timing.startTime,
                            endTime   |-> timing.endTime,
                            text      |-> JoinLines(textLines)],
              warnings |-> IF textLines = <<>> THEN <<textStart>> ELSE <<>>,
              nextLine |-> textEnd + 1]))))))

SortCues_parseOrder(cs) == cs

\* Array.prototype.sort with (a, b) => a.startTime - b.startTime: a stable sort
RECURSIVE SortCues(_)
SortCues(cs) ==
    IF cs = <<>> THEN <<>>
    ELSE LET c      == cs[Len(cs)]
             sorted == SortCues(SubSeq(cs, 1, Len(cs) - 1))
             before == {i \in DOMAIN sorted : DblLeq(sorted[i].startTime, c.startTime)}
             k      == IF before = {} THEN 0 ELSE SetMax(before)
         IN  SubSeq(sorted, 1, k) \o <<c>> \o SubSeq(sorted, k + 1, Len(sorted))

DurationOf_firstCue(cs) == IF Len(cs) > 0 THEN cs[1].endTime ELSE DblOfInt(0)

\* duration: the endTime of the last cue, 0 for no cue
DurationOf(cs) == IF Len(cs) > 0 THEN cs[Len(cs)].endTime ELSE DblOfInt(0)

\* the start of what ([a-z]{2}(?:-[A-Z]{2})?) captures after lang[=:]?\s* for the word
\* lang at position l of the lower-cased header, 0 if none
LangCodeAt(low, l) ==
    Bind(IF l + 4 <= Len(low) /\ low[l + 4] \in {"=", ":"} THEN l + 5 ELSE l + 4, LAMBDA b :
    Bind(FirstOf({i \in b..Len(low) : ~IsSpace(low[i])}), LAMBDA c :
        IF c # 0 /\ c + 1 <= Len(low) /\ IsLetter(low[c]) /\ IsLetter(low[c + 1])
        THEN c ELSE 0))

\* the end of the code that starts at c
LangCodeEnd(low, c) ==
    IF c + 4 <= Len(low) /\ low[c + 2] = "-" /\ IsLetter(low[c + 3]) /\ IsLetter(low[c + 4])
    THEN c + 4 ELSE c + 1

\* the places of the word lang that complete a match begun by WEBVTT at w: lang
\* follows the white space after WEBVTT directly or follows some later white space
LangPlaces(low, w) ==
    Bind(FirstOf({i \in (w + 6)..Len(low) : ~IsSpace(low[i])}), LAMBDA a :
        {l \in Occurrences(low, <<"l", "a", "n", "g">>) :
            /\ a > w + 6
            /\ l >= a
            /\ (l = a \/ IsSpace(low[l - 1]))
            /\ LangCodeAt(low, l) # 0})

\* extractLanguageFromHeader:
\*   /WEBVTT\s+(?:.*\s+)?lang[=:]?\s*([a-z]{2}(?:-[A-Z]{2})?)/i, <<>> for no match.
\* The first WEBVTT that can begin a match does, and the greedy .* makes the last
\* lang after it win.
extractLanguageFromHeader(headerLine) ==
    Bind(ToLower(headerLine), LAMBDA low :
    Bind({w \in Occurrences(low, <<"w", "e", "b", "v", "t", "t">>) : LangPlaces(low, w) # {}},
         LAMBDA starts :
        IF starts = {} THEN <<>>
        ELSE Bind(LangCodeAt(low, SetMax(LangPlaces(low, SetMin(starts)))), LAMBDA c :
                 SubSeq(headerLine, c, LangCodeEnd(low, c)))))

Signature == <<"W", "E", "B", "V", "T", "T">>

\* the scan loop of parseWebVTT from line currentLine on, given the cues and
\* warnings collected so far
RECURSIVE ScanFrom(_, _, _, _)
ScanFrom(lines, currentLine, cues, warnings) ==
    IF currentLine >= Len(lines) THEN [ok |-> TRUE, cues |-> cues, warnings |-> warnings]
    ELSE Bind(parseCueBlock(lines, currentLine), LAMBDA r :
            IF r.kind = "error" THEN [ok |-> FALSE, line |-> r.line]
            ELSE ScanFrom(lines, r.nextLine,
                          IF r.kind = "cue"
                          THEN Append(cues, convertToTranscriptCue(r.cue, Len(cues)))
                          ELSE cues,
                          warnings \o r.warnings))

\* what parseWebVTT returns once the scan is over
ParseResult(lines, cues, warnings) ==
    Bind(SortCues(cues), LAMBDA sorted :
        [ok       |-> TRUE,
         cues     |-> sorted,
         duration |-> DurationOf(sorted),
         language |-> extractLanguageFromHeader(lines[1]),
         warnings |-> warnings])

\* the header check of parseWebVTT: lines[0].startsWith('WEBVTT')
HasSignature_anyFirstLine(lines) == Len(lines) >= 1

HasSignature(lines) == StartsWith(lines[1], Signature)

\* the line at which the scan starts: the header and its metadata are skipped up
\* to the first blank line, and that line too
AfterHeader(lines) == SkipToBlank(lines, 1) + 1

\* parseWebVTT as a function of the document: ok = FALSE stands for the thrown
\* WebVTTParseError, line for its line
parseWebVTT(vttString) ==
    Bind(SplitLines(vttString), LAMBDA lines :
        IF ~HasSignature(lines) THEN [ok |-> FALSE, line |-> 1]
        ELSE Bind(ScanFrom(lines, AfterHeader(lines), <<>>, <<>>), LAMBDA scan :
                 IF ~scan.ok THEN scan ELSE ParseResult(lines, scan.cues, scan.warnings)))

(***************************************************************************)
(* Serializer (src/lib/webvtt/transformer.ts)                              *)
(***************************************************************************)
\* what the forEach of transcriptDataToWebVTT appends for the cues from index on
\* (index is 0-based)
RECURSIVE CueBlocks(_, _)
CueBlocks(cues, index) ==
    IF index >= Len(cues) THEN <<>>
    ELSE LET cue     == cues[index + 1]
             idLine  == IF cue.id # <<>> /\ cue.id # CuePrefix \o NatToString(index)
                        THEN cue.id \o <<"\n">> ELSE <<>>
             timing  == formatWebVTTTimestamp(cue.startTime) \o <<" ">> \o Arrow \o <<" ">>
                        \o formatWebVTTTimestamp(cue.endTime) \o <<"\n">>
             cueText == IF cue.speaker.has /\ cue.speaker.name # <<>>
                        THEN <<"<", "v", " ">> \o cue.speaker.name \o <<">">> \o cue.text
                        ELSE cue.text
         IN  idLine \o timing \o cueText \o <<"\n", "\n">> \o CueBlocks(cues, index + 1)

transcriptDataToWebVTT(data) ==
    LET header == Signature \o
                  (IF data.language # <<>>
                   THEN <<" ", "l", "a", "n", "g", ":">> \o data.language ELSE <<>>)
                  \o <<"\n", "\n">>
    IN  Trim(header \o CueBlocks(data.cues, 0))

(***************************************************************************)
(* Text transformer (src/lib/webvtt/transformer.ts)                        *)
(***************************************************************************)
DEFAULT_TRANSFORM_OPTIONS ==
    [segmentDuration |-> 3, speakerDetection |-> TRUE, timestampFormat |-> "timecode"]

\* { ...DEFAULT_TRANSFORM_OPTIONS, ...options }: options holds the keys the caller set
ConfigOf(options) ==
    [k \in DOMAIN DEFAULT_TRANSFORM_OPTIONS |->
        IF k \in DOMAIN options THEN options[k] ELSE DEFAULT_TRANSFORM_OPTIONS[k]]

\* the last place of the run of white space that starts at a
SpaceRunEnd(s, a) ==
    Bind(FirstOf({i \in a..Len(s) : ~IsSpace(s[i])}), LAMBDA n :
        IF n = 0 THEN Len(s) ELSE n - 1)

\* the maximal runs of white space of s, each as <<first, last>>
SpaceRuns(s) ==
    {<<a, SpaceRunEnd(s, a)>> :
        a \in {i \in DOMAIN s : IsSpace(s[i]) /\ (i = 1 \/ ~IsSpace(s[i - 1]))}}

\* s cut at disjoint spans <<first, last>>: the pieces before, between and after them
SplitAtSpans(s, spans) ==
    Bind({sp[1] : sp \in spans}, LAMBDA firsts :
    Bind({sp[2] : sp \in spans}, LAMBDA lasts :
        [k \in 1..(Cardinality(spans) + 1) |->
            SubSeq(s,
                   IF k = 1 THEN 1 ELSE Nth(lasts, k - 1) + 1,
                   IF k = Cardinality(spans) + 1 THEN Len(s) ELSE Nth(firsts, k) - 1)]))

LineFeeds(s, run) == {i \in run[1]..run[2] : s[i] = "\n"}

\* the matches of /\n\s*\n/ in s: from the first to the last line feed of a run of
\* white space that holds two or more
ParagraphBreaks(s) ==
    {<<SetMin(LineFeeds(s, run)), SetMax(LineFeeds(s, run))>> :
        run \in {r \in SpaceRuns(s) : Cardinality(LineFeeds(s, r)) >= 2}}

\* the matches of \s+ after [.!?] in s, which replace(/([.!?])\s+/g, '$1|SPLIT|')
\* turns into the marker that the sentences are split at (the texts of the model
\* do not hold the marker themselves)
SentenceBreaks(s) ==
    {run \in SpaceRuns(s) : run[1] > 1 /\ s[run[1] - 1] \in {".", "!", "?"}}

NonBlank(s) == Trim(s) # <<>>

NonEmpty(s) == s # <<>>

TrimEach(ss) == [k \in DOMAIN ss |-> Trim(ss[k])]

\* splitIntoSentences
splitIntoSentences(text) ==
    SelectSeq(TrimEach(SplitAtSpans(text, SentenceBreaks(text))), NonEmpty)

\* the speaking rate of estimateWordsPerSegment, in words per minute
WordsPerMinute == 150

\* estimateWordsPerSegment: Math.round((duration / 60) * wordsPerMinute), which
\* rounds halves up; for the whole durations of the model the product is exact
estimateWordsPerSegment(duration) == (2 * duration * WordsPerMinute + 60) \div 120
RECURSIVE SegmentsFrom_atBudget(_, _, _, _, _)
SegmentsFrom_atBudget(sentences, k, currentSegment, wordCount, wordsPerSegment) ==
    IF k > Len(sentences)
    THEN IF NonBlank(currentSegment) THEN <<Trim(currentSegment)>> ELSE <<>>
    ELSE Bind(Len(SplitSpaces(Trim(sentences[k]))), LAMBDA sentenceWords :
            IF currentSegment # <<>> /\ wordCount + sentenceWords >= wordsPerSegment
            THEN <<Trim(currentSegment)>> \o
                 SegmentsFrom_atBudget(sentences, k + 1, sentences[k], sentenceWords,
                                       wordsPerSegment)
            ELSE SegmentsFrom_atBudget(sentences, k + 1,
                                       currentSegment
                                           \o (IF currentSegment # <<>> THEN <<" ">> ELSE <<>>)
                                           \o sentences[k],
                                       wordCount + sentenceWords, wordsPerSegment))

\* the inner loop of splitTextIntoSegments from the k-th sentence on, and the push
\* of the remaining segment after it: the segments pushed
RECURSIVE SegmentsFrom(_, _, _, _, _)
SegmentsFrom(sentences, k, currentSegment, wordCount, wordsPerSegment) ==
    IF k > Len(sentences)
    THEN IF NonBlank(currentSegment) THEN <<Trim(currentSegment)>> ELSE <<>>
    ELSE Bind(Len(SplitSpaces(Trim(sentences[k]))), LAMBDA sentenceWords :
            IF currentSegment # <<>> /\ wordCount + sentenceWords > wordsPerSegment
            THEN <<Trim(currentSegment)>> \o
                 SegmentsFrom(sentences, k + 1, sentences[k], sentenceWords, wordsPerSegment)
            ELSE SegmentsFrom(sentences, k + 1,
                              currentSegment
                                  \o (IF currentSegment # <<>> THEN <<" ">> ELSE <<>>)
                                  \o sentences[k],
                              wordCount + sentenceWords, wordsPerSegment))

\* splitTextIntoSegments
splitTextIntoSegments(text, config) ==
    Bind(SelectSeq(SplitAtSpans(text, ParagraphBreaks(text)), NonBlank), LAMBDA paragraphs :
        SelectSeq(Flatten([k \in DOMAIN paragraphs |->
                              SegmentsFrom(splitIntoSentences(paragraphs[k]), 1, <<>>, 0,
                                           estimateWordsPerSegment(config.segmentDuration))]),
                  NonEmpty))

\* what (.+)$ captures after \s* from place p on, <<>> when nothing is left for it:
\* \s* gives back one character when the rest is white space only
RestOrLast(text, p) ==
    IF p >= Len(text) THEN <<>>
    ELSE IF RestAfter(text, p) = <<>> THEN <<text[Len(text)]>>
    ELSE RestAfter(text, p)

\* the end of a match of [A-Z][a-zA-Z\s]{1,30} from place a on that is followed by
\* the character close, 0 if none
NameEnd(text, a, close) ==
    Bind(FirstOf({i \in (a + 1)..Len(text) : ~(IsLetter(text[i]) \/ IsSpace(text[i]))}),
         LAMBDA stop :
        IF /\ a <= Len(text)
           /\ IsUpper(text[a])
           /\ stop # 0
           /\ text[stop] = close
           /\ stop - a - 1 >= 1
           /\ stop - a - 1 <= 30
        THEN stop - 1 ELSE 0)

\* the end of a match of [A-Z]{2,20} from place 1 on that is followed by a colon
CapsEnd(text) ==
    Bind(FirstOf({i \in DOMAIN text : ~IsUpper(text[i])}), LAMBDA stop :
        IF stop # 0 /\ text[stop] = ":" /\ stop - 1 >= 2 /\ stop - 1 <= 20
        THEN stop - 1 ELSE 0)

\* the transformer's extractSpeakerFromText:
\*   /^([A-Z][a-zA-Z\s]{1,30}):\s*(.+)$/s, /^\[([A-Z][a-zA-Z\s]{1,30})\]\s*(.+)$/s,
\*   /^([A-Z]{2,20}):\s*(.+)$/s, the first that matches
transformer_extractSpeakerFromText(text) ==
    Bind(NameEnd(text, 1, ":"), LAMBDA colonName :
    Bind(IF StartsWith(text, <<"[">>) THEN NameEnd(text, 2, "]") ELSE 0, LAMBDA bracketName :
    Bind(CapsEnd(text), LAMBDA capsName :
        IF colonName # 0 /\ RestOrLast(text, colonName + 1) # <<>>
        THEN [text    |-> RestOrLast(text, colonName + 1),
              speaker |-> Speaker(Trim(SubSeq(text, 1, colonName)))]
        ELSE IF bracketName # 0 /\ RestOrLast(text, bracketName + 1) # <<>>
        THEN [text    |-> RestOrLast(text, bracketName + 1),
              speaker |-> Speaker(Trim(SubSeq(text, 2, bracketName)))]
        ELSE IF capsName # 0 /\ RestOrLast(text, capsName + 1) # <<>>
        THEN [text    |-> RestOrLast(text, capsName + 1),
              speaker |-> Speaker(Trim(SubSeq(text, 1, capsName)))]
        ELSE [text |-> text, speaker |-> NoSpeaker])))

\* createCueFromSegment
createCueFromSegment(segment, index, config) ==
    Bind(IF config.speakerDetection THEN transformer_extractSpeakerFromText(segment)
         ELSE [text |-> segment, speaker |-> NoSpeaker], LAMBDA ex :
        [id        |-> CuePrefix \o NatToString(index),
         startTime |-> DblOfInt(index * config.segmentDuration),
         endTime   |-> DblOfInt(index * config.segmentDuration + config.segmentDuration),
         text      |-> Trim(ex.text),
         speaker   |-> ex.speaker])

IsWordChar(c) == IsLetter(c) \/ IsDigit(c) \/ c = "_"

EnglishWords ==
    {<<"t", "h", "e">>, <<"a", "n", "d">>, <<"o", "r">>, <<"b", "u", "t">>, <<"i", "n">>,
     <<"o", "n">>, <<"a", "t">>, <<"t", "o">>, <<"f", "o", "r">>, <<"o", "f">>,
     <<"w", "i", "t", "h">>, <<"b", "y">>}

\* the last place of the run of word characters that starts at a
WordRunEnd(s, a) ==
    Bind(FirstOf({i \in a..Len(s) : ~IsWordChar(s[i])}), LAMBDA n :
        IF n = 0 THEN Len(s) ELSE n - 1)

\* the number of matches of /\b(the|and|or|but|in|on|at|to|for|of|with|by)\b/gi:
\* the runs of word characters that are one of the words
EnglishMatches(text) ==
    Cardinality({a \in {i \in DOMAIN text :
                           IsWordChar(text[i]) /\ (i = 1 \/ ~IsWordChar(text[i - 1]))} :
                    ToLower(SubSeq(text, a, WordRunEnd(text, a))) \in EnglishWords})

\* detectLanguage: matches.length > text.split(/\s+/).length * 0.1, <<>> for undefined
detectLanguage(text) ==
    IF EnglishMatches(text) > 0 /\ EnglishMatches(text) * 10 > Len(SplitSpaces(text))
    THEN <<"e", "n">> ELSE <<>>
textToTranscriptData_emptyOnly(text, options) ==
    IF text = <<>> THEN [ok |-> FALSE]
    ELSE Bind(ConfigOf(options), LAMBDA config :
         Bind(splitTextIntoSegments(Trim(text), config), LAMBDA segments :
         Bind([k \in DOMAIN segments |-> createCueFromSegment(segments[k], k - 1, config)],
              LAMBDA cs :
             [ok       |-> TRUE,
              cues     |-> cs,
              duration |-> IF Len(cs) > 0 THEN cs[Len(cs)].endTime ELSE DblOfInt(0),
              language |-> detectLanguage(text)])))

\* textToTranscriptData: ok = FALSE stands for the thrown Error.  The options are
\* merged with the defaults and used as they are: validateTransformOptions is not
\* called.
textToTranscriptData(text, options) ==
    IF Trim(text) = <<>> THEN [ok |-> FALSE]
    ELSE Bind(ConfigOf(options), LAMBDA config :
         Bind(splitTextIntoSegments(Trim(text), config), LAMBDA segments :
         Bind([k \in DOMAIN segments |-> createCueFromSegment(segments[k], k - 1, config)],
              LAMBDA cs :
             [ok       |-> TRUE,
              cues     |-> cs,
              duration |-> IF Len(cs) > 0 THEN cs[Len(cs)].endTime ELSE DblOfInt(0),
              language |-> detectLanguage(text)])))

\* textToWebVTT: ok = FALSE stands for the thrown Error
textToWebVTT(text, options) ==
    IF Trim(text) = <<>> THEN [ok |-> FALSE]
    ELSE Bind(textToTranscriptData(text, ConfigOf(options)), LAMBDA transcriptData :
             [ok |-> TRUE, webvtt |-> transcriptDataToWebVTT(transcriptData)])
createCuesWithCustomTiming_moreSegmentsOnly(textSegments, timings, options) ==
    IF Len(textSegments) > Len(timings) THEN [ok |-> FALSE]
    ELSE Bind(ConfigOf(options), LAMBDA config :
             [ok   |-> TRUE,
              cues |-> [k \in DOMAIN textSegments |->
                           Bind(IF config.speakerDetection
                                THEN transformer_extractSpeakerFromText(textSegments[k])
                                ELSE [text |-> textSegments[k], speaker |-> NoSpeaker],
                                LAMBDA ex :
                               [id        |-> CuePrefix \o NatToString(k - 1),
                                startTime |-> DblOfInt(timings[k].start),
                                endTime   |-> DblOfInt(timings[k].end),
                                text      |-> Trim(ex.text),
                                speaker   |-> ex.speaker])]])

\* createCuesWithCustomTiming: ok = FALSE stands for the thrown Error.  The
\* timings are used as they are.
createCuesWithCustomTiming(textSegments, timings, options) ==
    IF Len(textSegments) # Len(timings) THEN [ok |-> FALSE]
    ELSE Bind(ConfigOf(options), LAMBDA config :
             [ok   |-> TRUE,
              cues |-> [k \in DOMAIN textSegments |->
                           Bind(IF config.speakerDetection
                                THEN transformer_extractSpeakerFromText(textSegments[k])
                                ELSE [text |-> textSegments[k], speaker |-> NoSpeaker],
                                LAMBDA ex :
                               [id        |-> CuePrefix \o NatToString(k - 1),
                                startTime |-> DblOfInt(timings[k].start),
                                endTime   |-> DblOfInt(timings[k].end),
                                text      |-> Trim(ex.text),
                                speaker   |-> ex.speaker])]])

(***************************************************************************)
(* Inputs of the model                                                     *)
(***************************************************************************)
(***************************************************************************)
(* Transcript search (src/lib/hooks/use-segment-interaction.ts and         *)
(* src/components/ui/transcript-search.tsx)                                *)
(*                                                                         *)
(* The queries are searched as literal text: useRegex and wholeWords keep  *)
(* their default, false, and no query holds a character that escapeRegExp  *)
(* would escape.                                                           *)
(***************************************************************************)
search_DEFAULT_CONFIG ==
    [caseSensitive |-> FALSE, wholeWords |-> FALSE, useRegex |-> FALSE,
     minQueryLength |-> 1, debounceDelay |-> 300, maxResults |-> 100]

\* { ...DEFAULT_CONFIG, ...config }: config holds the keys the caller set
SearchConfigOf(config) ==
    [k \in DOMAIN search_DEFAULT_CONFIG |->
        IF k \in DOMAIN config THEN config[k] ELSE search_DEFAULT_CONFIG[k]]

\* Array.prototype.slice(0, end)
SliceTo(s, end) ==
    SubSeq(s, 1, IF end >= 0 THEN Min2(end, Len(s)) ELSE Max2(Len(s) + end, 0))

\* regex.exec(text) with lastIndex = from, for the regular expression of the
\* escaped query with the flags g (case sensitive) or gi: where the first match at
\* or after from starts (0-based), or -1
RegexExec(text, query, caseSensitive, from) ==
    Bind(IF caseSensitive THEN <<text, query>> ELSE <<ToLower(text), ToLower(query)>>,
         LAMBDA tq :
             Bind({i \in Occurrences(tq[1], tq[2]) : i - 1 >= from}, LAMBDA at :
                 IF at = {} THEN -1 ELSE SetMin(at) - 1))

\* the matches loop over one cue text: at most MaxMatches matches are kept
MaxMatches == 10

RECURSIVE MatchesFrom(_, _, _, _, _)
MatchesFrom(text, query, caseSensitive, lastIndex, matches) ==
    Bind(RegexExec(text, query, caseSensitive, lastIndex), LAMBDA index :
        IF index = -1 \/ Len(matches) >= MaxMatches THEN matches
        ELSE MatchesFrom(text, query, caseSensitive, index + Len(query),
                         Append(matches, [start |-> index,
                                          end   |-> index + Len(query),
                                          text  |-> SubSeq(text, index + 1, index + Len(query))])))

\* the results pushed by the forEach over the cues, before any limit
RECURSIVE ResultsFrom(_, _, _, _)
ResultsFrom(cues, query, caseSensitive, cueIndex) ==
    IF cueIndex >= Len(cues) THEN <<>>
    ELSE Bind(MatchesFrom(cues[cueIndex + 1].text, query, caseSensitive, 0, <<>>),
              LAMBDA matches :
                  (IF matches # <<>>
                   THEN <<[cue |-> cues[cueIndex + 1], cueIndex |-> cueIndex, matches |-> matches]>>
                   ELSE <<>>) \o ResultsFrom(cues, query, caseSensitive, cueIndex + 1))

\* searchTranscriptCues of the hook: the return inside the forEach callback ends
\* that callback only; the slice after the loop limits the results
searchTranscriptCues(cues, query, config) ==
    IF Trim(query) = <<>> \/ Len(query) < config.minQueryLength THEN <<>>
    ELSE SliceTo(ResultsFrom(cues, query, config.caseSensitive, 0), config.maxResults)

\* searchCues of the TranscriptSearch component: the slice stands inside the
\* forEach callback, whose return value is dropped, and the results are returned
\* as they were pushed
searchCues(cues, query, config) ==
    IF Trim(query) = <<>> \/ Len(query) < config.minQueryLength THEN <<>>
    ELSE ResultsFrom(cues, query, config.caseSensitive, 0)

\* largest number of blocks after the header of an input document
MaxBlocks == 2

\* the text HH:MM:SS.mmm / MM:SS.mmm of an input document
LongStamp(h, m, sec, ms) ==
    PadStart(NatToString(h), 2) \o <<":">> \o PadStart(NatToString(m), 2) \o <<":">> \o
    PadStart(NatToString(sec), 2) \o <<".">> \o PadStart(NatToString(ms), 3)

ShortStamp(m, sec, ms) == SubSeq(LongStamp(0, m, sec, ms), 4, 12)

TimingText(a, arrow, b) == a \o <<" ">> \o arrow \o <<" ">> \o b

TextHi == <<"H", "i">>

TextId == <<"i", "d", "7">>

\* the blocks of the input documents:
\*   plain       00:00:05.000 --> 00:00:10.000 / Hi
\*   overlap     00:01.001 --> 00:00:20.000 / a>b: c      (short form; spans the others)
\*   voice       id7 / 00:00:02.000 --> 00:00:03.000 align:start / <v Al>x: y / z
\*   equal       00:00:03.000 --> 00:00:03.000 / Hi       (start = end)
\*   reversed    id7 / 00:00:09.000 --> 00:00:04.000      (start > end)
\*   badMinutes  00:00:01.000 --> 61:00.000 / Hi          (minutes out of range)
\*   badSeconds  id7 / 00:75.000 --> 00:02:00.000         (seconds out of range)
\*   dash        00:00:01.000 -> 00:00:02.000 / Hi        (single-dash arrow)
\*   idDash      id7 / 00:00:01.000 -> 00:00:02.000 / Hi  (the same after an identifier)
\*   note        NOTE x / y
\*   empty       00:00:07.000 --> 00:00:08.000            (no text)
\*   gap         a blank line: with the separators a run of blank lines, at the
\*               end of the document blank lines that no block follows
Blocks ==
    [plain      |-> <<TimingText(LongStamp(0, 0, 5, 0), Arrow, LongStamp(0, 0, 10, 0)), TextHi>>,
     overlap    |-> <<TimingText(ShortStamp(0, 1, 1), Arrow, LongStamp(0, 0, 20, 0)),
                      <<"a", ">", "b", ":", " ", "c">> >>,
     voice      |-> <<TextId,
                      TimingText(LongStamp(0, 0, 2, 0), Arrow, LongStamp(0, 0, 3, 0))
                          \o <<" ", "a", "l", "i", "g", "n", ":", "s", "t", "a", "r", "t">>,
                      <<"<", "v", " ", "A", "l", ">", "x", ":", " ", "y">>,
                      <<"z">> >>,
     equal      |-> <<TimingText(LongStamp(0, 0, 3, 0), Arrow, LongStamp(0, 0, 3, 0)), TextHi>>,
     reversed   |-> <<TextId, TimingText(LongStamp(0, 0, 9, 0), Arrow, LongStamp(0, 0, 4, 0))>>,
     badMinutes |-> <<TimingText(LongStamp(0, 0, 1, 0), Arrow, ShortStamp(61, 0, 0)), TextHi>>,
     badSeconds |-> <<TextId, TimingText(ShortStamp(0, 75, 0), Arrow, LongStamp(0, 2, 0, 0))>>,
     dash       |-> <<TimingText(LongStamp(0, 0, 1, 0), <<"-", ">">>, LongStamp(0, 0, 2, 0)),
                      TextHi>>,
     idDash     |-> <<TextId,
                      TimingText(LongStamp(0, 0, 1, 0), <<"-", ">">>, LongStamp(0, 0, 2, 0)),
                      TextHi>>,
     note       |-> << <<"N", "O", "T", "E", " ", "x">>, <<"y">> >>,
     empty      |-> <<TimingText(LongStamp(0, 0, 7, 0), Arrow, LongStamp(0, 0, 8, 0))>>,
     gap        |-> << <<>> >>]

BlockPool == {Blocks[k] : k \in DOMAIN Blocks}

\* header lines, each followed in the document by what the record says
HeaderPool ==
    {[lines |-> <<Signature>>, blank |-> TRUE],
     [lines |-> <<Signature \o <<" ", "l", "a", "n", "g", ":", "e", "n">>, <<"k", ":", "v">> >>,
      blank |-> TRUE],
     [lines |-> <<Signature>>, blank |-> FALSE],
     [lines |-> << <<"V", "T", "T">> >>, blank |-> TRUE]}

\* the lines of the blocks, a blank line between two blocks
RECURSIVE BlockLines(_, _)
BlockLines(blocks, k) ==
    IF k > Len(blocks) THEN <<>>
    ELSE blocks[k] \o (IF k < Len(blocks) THEN << <<>> >> ELSE <<>>) \o BlockLines(blocks, k + 1)

Document(header, blocks) ==
    JoinLines(header.lines \o (IF header.blank THEN << <<>> >> ELSE <<>>) \o BlockLines(blocks, 1))

\* the input documents: a header and up to MaxBlocks blocks
Documents ==
    {Document(h, bs) : h \in HeaderPool, bs \in UNION {[1..n -> BlockPool] : n \in 0..MaxBlocks}}

\* the texts given to the transformer: up to MaxPieces pieces of the pool in a row
MaxPieces == 3

PiecePool ==
    {<<"A", "l", ":", " ", "h", "i", ".", " ">>,
     <<"g", "o", " ", "o", "n", " ", "n", "o", "w", " ", "o", "k", "!">>,
     <<"[", "B", "o", "]", " ", "t", "h", "e", " ", "e", "n", "d", "?">>,
     <<"x">>,
     <<" ">>,
     <<"\n", "\n">>}

TextPool == {Flatten(ps) : ps \in UNION {[1..n -> PiecePool] : n \in 0..MaxPieces}}

\* the options given to the transformer: the keys the caller sets
NoOptions == [k \in {} |-> 0]

DurationPool == {-1, 1, 2}

OptionPool ==
    {NoOptions, [speakerDetection |-> FALSE]} \cup {[segmentDuration |-> d] : d \in DurationPool}

\* the arguments given to createCuesWithCustomTiming: up to MaxSegments text
\* segments, up to MaxSegments timings (in whole seconds) and the options
MaxSegments == 2

CustomTimingPool ==
    LET segs   == {<<"A", "l", ":", " ", "h", "i">>, <<" ", "x">>}
        spans  == {[start |-> 0, end |-> 2], [start |-> 2, end |-> 2],
                   [start |-> 5, end |-> 3], [start |-> -1, end |-> 1]}
        upTo(S) == UNION {[1..n -> S] : n \in 0..MaxSegments}
    IN  {[textSegments |-> ts, timings |-> tm, options |-> o] :
            ts \in upTo(segs), tm \in upTo(spans),
            o \in {NoOptions, [speakerDetection |-> FALSE]}}

\* the cues given to the search: up to MaxCues cues with texts of the pool, the last
\* of which holds more than MaxMatches matches of a query
MaxCues == 3

SearchCuePool ==
    LET texts == {<<"a", "b">>, <<"A", "b", " ", "a">>, <<"b">>,
                  [i \in 1..(MaxMatches + 2) |-> "a"]}
    IN  {[i \in DOMAIN ts |-> [id |-> CuePrefix \o NatToString(i - 1), text |-> ts[i]]] :
            ts \in UNION {[1..n -> texts] : n \in 0..MaxCues}}

\* the queries: matching in either case, in one case, blank, and matching nothing
QueryPool == {<<"a">>, <<"A", "b">>, <<" ">>, <<"z">>}

\* the search configurations: the keys the caller sets
SearchConfigPool ==
    {NoOptions, [maxResults |-> 2], [maxResults |-> 1, caseSensitive |-> TRUE],
     [maxResults |-> 0], [minQueryLength |-> 2]}

\* Date.now() when a hook is mounted, in milliseconds: later than any
\* clickDebounce after the time 0 that lastClickTimeRef starts with
StartTime == 1000

\* the time values given to formatWebVTTTimestamp, in milliseconds: 0, 1 or 100
\* hours plus 0..MaxMillis milliseconds
MaxMillis == 1100

MillisPool == {h * 3600000 + k : h \in {0, 1, 100}, k \in 0..MaxMillis}

\* the tokens given to parseWebVTTTimestamp directly: every choice of an hours
\* part, a minutes part, a seconds part and a milliseconds part
TokenPool ==
    {h \o m \o <<":">> \o sec \o <<".">> \o ms :
        h   \in {<<>>, <<"1", ":">>, <<"0", "1", ":">>, <<"1", "2", "3", ":">>},
        m   \in {<<"5">>, <<"0", "5">>, <<"5", "9">>, <<"6", "0">>},
        sec \in {<<"5">>, <<"0", "5">>, <<"6", "0">>},
        ms  \in {<<"0", "0", "0">>, <<"9", "9", "9">>, <<"9", "9">>}}

(***************************************************************************)
(* State                                                                   *)
(***************************************************************************)
VARIABLES
    pc,           \* where the run stands
    vttString,    \* the document given to parseWebVTT
    lines,        \* parseWebVTT: lines
    currentLine,  \* parseWebVTT: currentLine
    cues,         \* parseWebVTT: cues, in parse order
    warnings,     \* parseWebVTT: warnings, each the line number it cites
    result,       \* what parseWebVTT returned or threw
    webvtt,       \* transcriptDataToWebVTT of the result
    reparsed,     \* parseWebVTT of webvtt
    millis,       \* the time value given to formatWebVTTTimestamp, in milliseconds
    timestamp,    \* the token given to parseWebVTTTimestamp
    parsedStamp,  \* what parseWebVTTTimestamp returned or threw
    text,         \* the text given to textToTranscriptData
    options,      \* the options given to textToTranscriptData
    transformed,  \* what textToTranscriptData returned or threw
    args,         \* the arguments of a call of one of the other functions, or of a hook
    returned,     \* what that call returned or threw
    now,          \* Date.now(), the clock of the timers, in milliseconds
    timers,       \* the timeouts that are set and have neither run nor been cleared
    timerCount,   \* the number of setTimeout calls so far: the id of the last timeout
    state,        \* the state of the hook (useState)
    debounceTimeoutRef,  \* useTranscriptSearch: debounceTimeoutRef.current (0: undefined)
    clickTimeoutRef,     \* useSegmentInteraction: clickTimeoutRef.current (0: undefined)
    hoverTimeoutRef,     \* useSegmentInteraction: hoverTimeoutRef.current (0: undefined)
    lastClickTimeRef,    \* useSegmentInteraction: lastClickTimeRef.current
    event,        \* the handler or timeout that ran last, with the callbacks it invoked
    lastCall      \* what is remembered of the last setQuery or handleSegmentClick call

parserVars == <<vttString, lines, currentLine, cues, warnings, result, webvtt, reparsed>>

stampVars == <<millis, timestamp, parsedStamp>>

transformVars == <<text, options, transformed>>

callVars == <<args, returned>>

hookVars == <<now, timers, timerCount, state, debounceTimeoutRef, clickTimeoutRef,
              hoverTimeoutRef, lastClickTimeRef, event, lastCall>>

vars == <<pc, parserVars, stampVars, transformVars, callVars, hookVars>>

Pending == [status |-> "pending"]

ParserIdle ==
    /\ vttString = <<>>
    /\ lines = <<>>
    /\ currentLine = 0
    /\ cues = <<>>
    /\ warnings = <<>>
    /\ result = Pending
    /\ webvtt = <<>>
    /\ reparsed = Pending

StampIdle ==
    /\ millis = 0
    /\ timestamp = <<>>
    /\ parsedStamp = Pending

TransformIdle ==
    /\ text = <<>>
    /\ options = NoOptions
    /\ transformed = Pending

CallIdle ==
    /\ args = <<>>
    /\ returned = Pending

\* no call has been made and no handler has run
NoCall == [status |-> "none", handler |-> "none", callbacks |-> <<>>, at |-> 0, ran |-> 0]

\* a hook at its mount: the clock at the time of the mount, no timeout set, the
\* refs as useRef gave them, no handler run yet
Mounted ==
    /\ now = StartTime
    /\ timers = {}
    /\ timerCount = 0
    /\ debounceTimeoutRef = 0
    /\ clickTimeoutRef = 0
    /\ hoverTimeoutRef = 0
    /\ lastClickTimeRef = 0
    /\ event = NoCall
    /\ lastCall = NoCall

\* no hook is mounted
HookIdle ==
    /\ Mounted
    /\ state = NoCall

(***************************************************************************)
(* The entry points: parseWebVTT, then transcriptDataToWebVTT and          *)
(* parseWebVTT again; textToTranscriptData                                 *)
(***************************************************************************)
Init ==
    /\ lines = <<>>
    /\ currentLine = 0
    /\ cues = <<>>
    /\ warnings = <<>>
    /\ result = Pending
    /\ webvtt = <<>>
    /\ reparsed = Pending
    /\ StampIdle
    /\ HookIdle
    /\ transformed = Pending
    /\ returned = Pending
    /\ \/ /\ pc = "start"
          /\ vttString \in Documents
          /\ text = <<>>
          /\ options = NoOptions
          /\ args = <<>>
       \/ /\ pc = "text"
          /\ vttString = <<>>
          /\ text \in TextPool
          /\ options \in OptionPool
          /\ args = <<>>
       \/ /\ pc = "custom"
          /\ vttString = <<>>
          /\ text = <<>>
          /\ options = NoOptions
          /\ args \in CustomTimingPool

\* parseWebVTT up to the scan loop: split, header check, metadata skipped
ParseHeader ==
    /\ pc = "start"
    /\ lines' = SplitLines(vttString)
    /\ IF ~HasSignature(lines')
       THEN /\ pc' = "failed"
            /\ result' = [ok |-> FALSE, line |-> 1]
            /\ currentLine' = currentLine
       ELSE /\ pc' = "scan"
            /\ result' = result
            /\ currentLine' = AfterHeader(lines')
    /\ UNCHANGED <<vttString, cues, warnings, webvtt, reparsed, stampVars, transformVars, callVars, hookVars>>

\* one iteration of the scan loop
ScanBlock ==
    /\ pc = "scan"
    /\ currentLine < Len(lines)
    /\ \E r \in {parseCueBlock(lines, currentLine)} :
          IF r.kind = "error"
          THEN /\ pc' = "failed"
               /\ result' = [ok |-> FALSE, line |-> r.line]
               /\ UNCHANGED <<currentLine, cues, warnings>>
          ELSE /\ cues' = IF r.kind = "cue"
                          THEN Append(cues, convertToTranscriptCue(r.cue, Len(cues)))
                          ELSE cues
               /\ warnings' = warnings \o r.warnings
               /\ currentLine' = r.nextLine
               /\ UNCHANGED <<pc, result>>
    /\ UNCHANGED <<vttString, lines, webvtt, reparsed, stampVars, transformVars, callVars, hookVars>>

\* the loop is over: sort, duration, return
Finish ==
    /\ pc = "scan"
    /\ currentLine >= Len(lines)
    /\ result' = ParseResult(lines, cues, warnings)
    /\ pc' = "done"
    /\ UNCHANGED <<vttString, lines, currentLine, cues, warnings, webvtt, reparsed, stampVars, transformVars, callVars, hookVars>>

\* the returned data is serialized
Serialize ==
    /\ pc = "done"
    /\ webvtt' = transcriptDataToWebVTT(result)
    /\ pc' = "serialized"
    /\ UNCHANGED <<vttString, lines, currentLine, cues, warnings, result, reparsed, stampVars, transformVars, callVars, hookVars>>

\* the serialization is parsed again
Reparse ==
    /\ pc = "serialized"
    /\ reparsed' = parseWebVTT(webvtt)
    /\ pc' = "reparsed"
    /\ UNCHANGED <<vttString, lines, currentLine, cues, warnings, result, webvtt, stampVars, transformVars, callVars, hookVars>>

\* textToTranscriptData
Transform ==
    /\ pc = "text"
    /\ transformed' = textToTranscriptData(text, options)
    /\ pc' = "transformed"
    /\ UNCHANGED <<parserVars, stampVars, callVars, text, options, hookVars>>

\* createCuesWithCustomTiming
CustomTiming ==
    /\ pc = "custom"
    /\ returned' = createCuesWithCustomTiming(args.textSegments, args.timings, args.options)
    /\ pc' = "customDone"
    /\ UNCHANGED <<parserVars, stampVars, transformVars, args, hookVars>>

Next == ParseHeader \/ ScanBlock \/ Finish \/ Serialize \/ Reparse \/ Transform \/ CustomTiming

Spec == Init /\ [][Next]_vars

(***************************************************************************)
(* formatWebVTTTimestamp and parseWebVTTTimestamp on their own             *)
(***************************************************************************)
InitStamp ==
    /\ ParserIdle
    /\ TransformIdle
    /\ CallIdle
    /\ HookIdle
    /\ parsedStamp = Pending
    /\ \/ /\ pc = "format"
          /\ millis \in MillisPool
          /\ timestamp = <<>>
       \/ /\ pc = "token"
          /\ millis = 0
          /\ timestamp \in TokenPool

\* a time value of whole milliseconds is formatted
FormatStamp ==
    /\ pc = "format"
    /\ timestamp' = formatWebVTTTimestamp(FlLiteral(millis))
    /\ pc' = "formatted"
    /\ UNCHANGED <<parserVars, transformVars, callVars, millis, parsedStamp, hookVars>>

\* a token, formatted or given, is parsed
ParseStamp ==
    /\ pc \in {"formatted", "token"}
    /\ parsedStamp' = parseWebVTTTimestamp(timestamp)
    /\ pc' = IF pc = "formatted" THEN "roundtrip" ELSE "parsed"
    /\ UNCHANGED <<parserVars, transformVars, callVars, millis, timestamp, hookVars>>

NextStamp == FormatStamp \/ ParseStamp

SpecStamp == InitStamp /\ [][NextStamp]_vars

(***************************************************************************)
(* Single calls: the speaker extraction of convertToTranscriptCue;         *)
(* textToTranscriptData, textToWebVTT and splitTextIntoSegments on the     *)
(* same arguments; searchTranscriptCues and searchCues on the same         *)
(* arguments                                                               *)
(***************************************************************************)
\* the cue texts given to the speaker extraction.  They begin with nothing, a
\* voice tag (well formed, with spaces only for a name, with a colon in the name,
\* without a name, without the space, unclosed), another tag, a colon at once, or
\* a colon prefix (short, blank, of ColonSpeakerMaxLen - 1 and ColonSpeakerMaxLen
\* characters), and go on with or without a colon
SpeakerTexts ==
    LET heads ==
            {<<>>,
             <<"<", "v", " ", "A", "l", ">">>,
             <<"<", "v", " ", " ", ">">>,
             <<"<", "v", " ", "A", ":", "l", " ", ">">>,
             <<"<", "v", ">">>,
             <<"<", "v", "A", "l", ">">>,
             <<"<", "v", " ", "A", "l">>,
             <<"<", "b", ">">>,
             <<":">>,
             <<"B", "o", ":">>,
             <<" ", "B", "o", " ", ":", " ">>,
             <<" ", ":">>,
             [i \in 1..ColonSpeakerMaxLen |-> IF i = ColonSpeakerMaxLen THEN ":" ELSE "a"],
             [i \in 1..(ColonSpeakerMaxLen + 1) |->
                 IF i = ColonSpeakerMaxLen + 1 THEN ":" ELSE "a"]}
        tails ==
            {<<>>, <<"x">>, <<" ", "x", " ">>, <<"x", ":", " ", "y">>,
             <<"x", "\n", "y", ":", "z">>}
    IN  {h \o t : h \in heads, t \in tails}

InitCall ==
    /\ ParserIdle
    /\ StampIdle
    /\ TransformIdle
    /\ HookIdle
    /\ returned = Pending
    /\ \/ /\ pc = "speaker"
          /\ args \in SpeakerTexts
       \/ /\ pc = "transform"
          /\ args \in [text : TextPool, options : OptionPool]
       \/ /\ pc = "search"
          /\ args \in [cues : SearchCuePool, query : QueryPool, config : SearchConfigPool]

\* convertToTranscriptCue on a cue with the text args: the speaker extraction and
\* the trim of the text
ExtractSpeaker ==
    /\ pc = "speaker"
    /\ returned' = convertToTranscriptCue([id        |-> <<>>,
                                           startTime |-> DblOfInt(0),
                                           endTime   |-> DblOfInt(1),
                                           text      |-> args], 0)
    /\ pc' = "speakerDone"
    /\ UNCHANGED <<parserVars, stampVars, transformVars, args, hookVars>>

\* textToTranscriptData
TextToData ==
    /\ pc = "transform"
    /\ returned' = textToTranscriptData(args.text, args.options)
    /\ pc' = "dataDone"
    /\ UNCHANGED <<parserVars, stampVars, transformVars, args, hookVars>>

\* textToWebVTT
TextToWebVTT ==
    /\ pc = "transform"
    /\ returned' = textToWebVTT(args.text, args.options)
    /\ pc' = "webvttDone"
    /\ UNCHANGED <<parserVars, stampVars, transformVars, args, hookVars>>

\* parseWebVTT on the text that textToWebVTT returned
ParseOutput ==
    /\ pc = "webvttDone"
    /\ returned.ok
    /\ returned' = [ok |-> TRUE, webvtt |-> returned.webvtt,
                    parsed |-> parseWebVTT(returned.webvtt)]
    /\ pc' = "roundTripDone"
    /\ UNCHANGED <<parserVars, stampVars, transformVars, args, hookVars>>

\* splitTextIntoSegments as textToTranscriptData calls it: on the trimmed text,
\* which is not empty, and the merged options
SplitSegments ==
    /\ pc = "transform"
    /\ Trim(args.text) # <<>>
    /\ returned' = [segments |-> splitTextIntoSegments(Trim(args.text), ConfigOf(args.options))]
    /\ pc' = "segmentsDone"
    /\ UNCHANGED <<parserVars, stampVars, transformVars, args, hookVars>>

\* searchTranscriptCues, as the timer callback of useTranscriptSearch calls it
SearchTranscriptCues ==
    /\ pc = "search"
    /\ returned' = [results |-> searchTranscriptCues(args.cues, args.query,
                                                     SearchConfigOf(args.config))]
    /\ pc' = "hookSearchDone"
    /\ UNCHANGED <<parserVars, stampVars, transformVars, args, hookVars>>

\* searchCues, as the timer callback of the TranscriptSearch component calls it
SearchCues ==
    /\ pc = "search"
    /\ returned' = [results |-> searchCues(args.cues, args.query, SearchConfigOf(args.config))]
    /\ pc' = "componentSearchDone"
    /\ UNCHANGED <<parserVars, stampVars, transformVars, args, hookVars>>

NextCall ==
    \/ ExtractSpeaker
    \/ TextToData
    \/ TextToWebVTT
    \/ ParseOutput
    \/ SplitSegments
    \/ SearchTranscriptCues
    \/ SearchCues

SpecCall == InitCall /\ [][NextCall]_vars

(***************************************************************************)
(* The timers of the hooks: setTimeout, clearTimeout and the clock         *)
(***************************************************************************)
\* the largest number of setTimeout calls of a behaviour
MaxTimeouts == 3

\* the largest number of ticks of the clock of a behaviour
MaxTicks == 7

\* the tick of the clock, in milliseconds: a third of the default debounceDelay
\* while useTranscriptSearch is mounted, a third of the default clickDebounce
\* while useSegmentInteraction is mounted
TickMs == IF pc = "searchHook" THEN 100 ELSE 50

\* clearTimeout(id): without effect when the timeout has run or id is undefined
ClearTimeout(ts, id) == {t \in ts : t.id # id}

\* the timeout that runs next: one that is due, the earliest set first
IsNextDue(t) ==
    /\ t \in timers
    /\ t.due <= now
    /\ \A u \in timers : u.due > t.due \/ (u.due = t.due /\ u.id >= t.id)

\* time passes, by a tick or up to the time the next timeout is due; a timeout
\* that is due runs before
Tick ==
    /\ pc \in {"searchHook", "segmentHook"}
    /\ \A t \in timers : t.due > now
    /\ now' = SetMin({now + TickMs} \cup {t.due : t \in timers})
    /\ now' <= StartTime + MaxTicks * TickMs
    /\ event' = [handler |-> "tick", callbacks |-> <<>>]
    /\ UNCHANGED <<pc, parserVars, stampVars, transformVars, callVars, timers, timerCount,
                   state, debounceTimeoutRef, clickTimeoutRef, hoverTimeoutRef,
                   lastClickTimeRef, lastCall>>

(***************************************************************************)
(* useTranscriptSearch                                                     *)
(***************************************************************************)
InitialSearchState ==
    [query |-> <<>>, results |-> <<>>, currentResultIndex |-> -1,
     isSearching |-> FALSE, isLoading |-> FALSE, error |-> "null"]

\* the cues and the configurations the hook is mounted with: the queries match in
\* three or more, two and no cues
SearchHookArgs ==
    [cues   : {c \in SearchCuePool :
                  /\ Len(c) = MaxCues
                  /\ c[1].text = <<"a", "b">> /\ c[2].text = <<"A", "b", " ", "a">>
                  /\ Len(c[MaxCues].text) > MaxMatches},
     config : {NoOptions, [maxResults |-> 1], [debounceDelay |-> 100]}]

InitSearch ==
    /\ ParserIdle
    /\ StampIdle
    /\ TransformIdle
    /\ returned = Pending
    /\ Mounted
    /\ pc = "searchHook"
    /\ args \in SearchHookArgs
    /\ state = InitialSearchState

\* what onCurrentResultChange is invoked with
CurrentResultChange(results, index) ==
    [name   |-> "onCurrentResultChange",
     result |-> IF index = -1 THEN "null" ELSE results[index + 1],
     index  |-> index]

\* setQuery(query), and the executeSearch(query) it calls
setQuery_keepsTimeout ==
    /\ pc = "searchHook"
    /\ timerCount < MaxTimeouts
    /\ \E query \in QueryPool :
          /\ state' = [state EXCEPT !.query = query, !.isLoading = TRUE, !.error = "null"]
          /\ timers' = timers \cup
                       {[id    |-> timerCount + 1,
                         due   |-> now + SearchConfigOf(args.config).debounceDelay,
                         query |-> query]}
          /\ event' = [handler   |-> "setQuery",
                       callbacks |-> <<[name |-> "onQueryChange", query |-> query]>>]
          /\ lastCall' = [status |-> "set", query |-> query, at |-> now, ran |-> 0]
    /\ timerCount' = timerCount + 1
    /\ debounceTimeoutRef' = timerCount + 1
    /\ UNCHANGED <<pc, parserVars, stampVars, transformVars, callVars, now, clickTimeoutRef,
                   hoverTimeoutRef, lastClickTimeRef>>

setQuery ==
    /\ pc = "searchHook"
    /\ timerCount < MaxTimeouts
    /\ \E query \in QueryPool :
          /\ state' = [state EXCEPT !.query = query, !.isLoading = TRUE, !.error = "null"]
          /\ timers' = ClearTimeout(timers, debounceTimeoutRef) \cup
                       {[id    |-> timerCount + 1,
                         due   |-> now + SearchConfigOf(args.config).debounceDelay,
                         query |-> query]}
          /\ event' = [handler   |-> "setQuery",
                       callbacks |-> <<[name |-> "onQueryChange", query |-> query]>>]
          /\ lastCall' = [status |-> "set", query |-> query, at |-> now, ran |-> 0]
    /\ timerCount' = timerCount + 1
    /\ debounceTimeoutRef' = timerCount + 1
    /\ UNCHANGED <<pc, parserVars, stampVars, transformVars, callVars, now, clickTimeoutRef,
                   hoverTimeoutRef, lastClickTimeRef>>

\* the callback of the debounce timeout.  searchTranscriptCues does not throw for
\* the queries of the model, so that the catch branch is not taken
SearchTimeout ==
    /\ pc = "searchHook"
    /\ \E t \in timers :
          /\ IsNextDue(t)
          /\ \E results \in {searchTranscriptCues(args.cues, t.query, SearchConfigOf(args.config))} :
                /\ state' = [state EXCEPT
                                !.results = results,
                                !.currentResultIndex = IF Len(results) > 0 THEN 0 ELSE -1,
                                !.isSearching =
                                    Len(t.query) >= SearchConfigOf(args.config).minQueryLength,
                                !.isLoading = FALSE,
                                !.error = "null"]
                /\ event' = [handler   |-> "timeout",
                             callbacks |->
                                 <<[name |-> "onResultsChange", results |-> results,
                                    query |-> t.query],
                                   CurrentResultChange(results,
                                                       IF Len(results) > 0 THEN 0 ELSE -1)>>]
          /\ timers' = timers \ {t}
    /\ lastCall' = [lastCall EXCEPT !.ran = @ + 1]
    /\ UNCHANGED <<pc, parserVars, stampVars, transformVars, callVars, now, timerCount,
                   debounceTimeoutRef, clickTimeoutRef, hoverTimeoutRef, lastClickTimeRef>>

\* what a handler that moves the current result to newIndex does to the state, and
\* the callback it invokes
MoveTo(handler, newIndex) ==
    /\ state' = [state EXCEPT !.currentResultIndex = newIndex]
    /\ event' = [handler   |-> handler,
                 index     |-> newIndex,
                 callbacks |-> <<CurrentResultChange(state.results, newIndex)>>]

\* a handler returns prev from its setState updater
KeepState(handler, index) ==
    /\ state' = state
    /\ event' = [handler |-> handler, index |-> index, callbacks |-> <<>>]

nextResult_stopsAtLast ==
    /\ pc = "searchHook"
    /\ IF Len(state.results) = 0 THEN KeepState("nextResult", state.currentResultIndex)
       ELSE MoveTo("nextResult",
                   IF state.currentResultIndex < Len(state.results) - 1
                   THEN state.currentResultIndex + 1
                   ELSE state.currentResultIndex)
    /\ UNCHANGED <<pc, parserVars, stampVars, transformVars, callVars, now, timers, timerCount,
                   debounceTimeoutRef, clickTimeoutRef, hoverTimeoutRef, lastClickTimeRef,
                   lastCall>>

nextResult ==
    /\ pc = "searchHook"
    /\ IF Len(state.results) = 0 THEN KeepState("nextResult", state.currentResultIndex)
       ELSE MoveTo("nextResult",
                   IF state.currentResultIndex < Len(state.results) - 1
                   THEN state.currentResultIndex + 1
                   ELSE 0)
    /\ UNCHANGED <<pc, parserVars, stampVars, transformVars, callVars, now, timers, timerCount,
                   debounceTimeoutRef, clickTimeoutRef, hoverTimeoutRef, lastClickTimeRef,
                   lastCall>>

prevResult ==
    /\ pc = "searchHook"
    /\ IF Len(state.results) = 0 THEN KeepState("prevResult", state.currentResultIndex)
       ELSE MoveTo("prevResult",
                   IF state.currentResultIndex > 0
                   THEN state.currentResultIndex - 1
                   ELSE Len(state.results) - 1)
    /\ UNCHANGED <<pc, parserVars, stampVars, transformVars, callVars, now, timers, timerCount,
                   debounceTimeoutRef, clickTimeoutRef, hoverTimeoutRef, lastClickTimeRef,
                   lastCall>>

\* goToResult(index), for the indices from -1 to MaxCues
goToResult_noLowerBound ==
    /\ pc = "searchHook"
    /\ \E index \in (-1)..MaxCues :
          IF index >= Len(state.results)
          THEN KeepState("goToResult", index)
          ELSE MoveTo("goToResult", index)
    /\ UNCHANGED <<pc, parserVars, stampVars, transformVars, callVars, now, timers, timerCount,
                   debounceTimeoutRef, clickTimeoutRef, hoverTimeoutRef, lastClickTimeRef,
                   lastCall>>

goToResult ==
    /\ pc = "searchHook"
    /\ \E index \in (-1)..MaxCues :
          IF index < 0 \/ index >= Len(state.results)
          THEN KeepState("goToResult", index)
          ELSE MoveTo("goToResult", index)
    /\ UNCHANGED <<pc, parserVars, stampVars, transformVars, callVars, now, timers, timerCount,
                   debounceTimeoutRef, clickTimeoutRef, hoverTimeoutRef, lastClickTimeRef,
                   lastCall>>

clearSearch_keepsTimeout ==
    /\ pc = "searchHook"
    /\ timers' = timers
    /\ state' = InitialSearchState
    /\ event' = [handler   |-> "clearSearch",
                 callbacks |-> <<[name |-> "onSearchClear"], CurrentResultChange(<<>>, -1)>>]
    /\ lastCall' = [status |-> "cleared", at |-> now, ran |-> 0]
    /\ UNCHANGED <<pc, parserVars, stampVars, transformVars, callVars, now, timerCount,
                   debounceTimeoutRef, clickTimeoutRef, hoverTimeoutRef, lastClickTimeRef>>

clearSearch ==
    /\ pc = "searchHook"
    /\ timers' = ClearTimeout(timers, debounceTimeoutRef)
    /\ state' = InitialSearchState
    /\ event' = [handler   |-> "clearSearch",
                 callbacks |-> <<[name |-> "onSearchClear"], CurrentResultChange(<<>>, -1)>>]
    /\ lastCall' = [status |-> "cleared", at |-> now, ran |-> 0]
    /\ UNCHANGED <<pc, parserVars, stampVars, transformVars, callVars, now, timerCount,
                   debounceTimeoutRef, clickTimeoutRef, hoverTimeoutRef, lastClickTimeRef>>

NextSearch ==
    \/ setQuery
    \/ SearchTimeout
    \/ nextResult
    \/ prevResult
    \/ goToResult
    \/ clearSearch
    \/ Tick

SpecSearch == InitSearch /\ [][NextSearch]_vars

(***************************************************************************)
(* useSegmentInteraction: the click, double-click and hover handlers, the  *)
(* timeouts they set, and resetInteractionState.  Every callback is given. *)
(***************************************************************************)
interaction_DEFAULT_CONFIG ==
    [enableHoverPreview |-> TRUE, hoverDelay |-> 300, enableKeyboardNav |-> TRUE,
     enableDoubleClick |-> TRUE, clickDebounce |-> 150]

\* { ...DEFAULT_CONFIG, ...config }
InteractionConfigOf(config) ==
    [k \in DOMAIN interaction_DEFAULT_CONFIG |->
        IF k \in DOMAIN config THEN config[k] ELSE interaction_DEFAULT_CONFIG[k]]

\* the delay of the single-click callback: the double-click detection window
DoubleClickWindow == 200

InitialInteractionState ==
    [hoveredSegmentId |-> "null", focusedSegmentId |-> "null",
     isHoverPreviewActive |-> FALSE, lastInteractionTime |-> 0]

\* the cues and the configurations the hook is mounted with
SegmentHookArgs ==
    [cues   : {c \in SearchCuePool : Len(c) = 2 /\ c[1].text = c[2].text /\ Len(c[1].text) = 1},
     config : {NoOptions, [enableDoubleClick |-> FALSE], [clickDebounce |-> 250]}]

InitSegment ==
    /\ ParserIdle
    /\ StampIdle
    /\ TransformIdle
    /\ returned = Pending
    /\ Mounted
    /\ pc = "segmentHook"
    /\ args \in SegmentHookArgs
    /\ state = InitialInteractionState

\* handleSegmentClick(cue, event)
handleSegmentClick ==
    /\ pc = "segmentHook"
    /\ timerCount < MaxTimeouts
    /\ \E cue \in Range(args.cues) :
          IF now - lastClickTimeRef < InteractionConfigOf(args.config).clickDebounce
          THEN /\ timers' = ClearTimeout(timers, clickTimeoutRef)
               /\ event' = [handler |-> "handleSegmentClick", cue |-> cue, callbacks |-> <<>>]
               /\ UNCHANGED <<state, lastClickTimeRef, timerCount, clickTimeoutRef, lastCall>>
          ELSE /\ lastClickTimeRef' = now
               /\ state' = [state EXCEPT !.lastInteractionTime = now]
               /\ lastCall' = [status |-> "accepted", cue |-> cue, at |-> now, ran |-> 0]
               /\ IF InteractionConfigOf(args.config).enableDoubleClick
                  THEN /\ timers' = ClearTimeout(timers, clickTimeoutRef) \cup
                                    {[id       |-> timerCount + 1,
                                      due      |-> now + DoubleClickWindow,
                                      callback |-> "onSegmentClick",
                                      cue      |-> cue]}
                       /\ timerCount' = timerCount + 1
                       /\ clickTimeoutRef' = timerCount + 1
                       /\ event' = [handler |-> "handleSegmentClick", cue |-> cue,
                                    callbacks |-> <<>>]
                  ELSE /\ timers' = ClearTimeout(timers, clickTimeoutRef)
                       /\ event' = [handler |-> "handleSegmentClick", cue |-> cue,
                                    callbacks |-> <<[name |-> "onSegmentClick", cue |-> cue]>>]
                       /\ UNCHANGED <<timerCount, clickTimeoutRef>>
    /\ UNCHANGED <<pc, parserVars, stampVars, transformVars, callVars, now,
                   debounceTimeoutRef, hoverTimeoutRef>>

\* handleSegmentDoubleClick(cue, event).  The last accepted click is remembered
\* as double-clicked when its callback has not run
handleSegmentDoubleClick ==
    /\ pc = "segmentHook"
    /\ \E cue \in Range(args.cues) :
          IF ~InteractionConfigOf(args.config).enableDoubleClick
          THEN /\ event' = [handler |-> "handleSegmentDoubleClick", cue |-> cue,
                            callbacks |-> <<>>]
               /\ UNCHANGED <<timers, state, lastCall>>
          ELSE /\ timers' = ClearTimeout(timers, clickTimeoutRef)
               /\ state' = [state EXCEPT !.lastInteractionTime = now]
               /\ event' = [handler |-> "handleSegmentDoubleClick", cue |-> cue,
                            callbacks |-> <<[name |-> "onSegmentDoubleClick", cue |-> cue]>>]
               /\ lastCall' = IF lastCall.status = "accepted" /\ lastCall.ran = 0
                              THEN [lastCall EXCEPT !.status = "doubleClicked"]
                              ELSE lastCall
    /\ UNCHANGED <<pc, parserVars, stampVars, transformVars, callVars, now, timerCount,
                   debounceTimeoutRef, clickTimeoutRef, hoverTimeoutRef, lastClickTimeRef>>

\* the callback of the single-click timeout
ClickTimeout ==
    /\ pc = "segmentHook"
    /\ \E t \in timers :
          /\ IsNextDue(t)
          /\ t.callback = "onSegmentClick"
          /\ timers' = timers \ {t}
          /\ event' = [handler   |-> "timeout",
                       callbacks |-> <<[name |-> "onSegmentClick", cue |-> t.cue]>>]
    /\ lastCall' = [lastCall EXCEPT !.ran = @ + 1]
    /\ UNCHANGED <<pc, parserVars, stampVars, transformVars, callVars, now, timerCount, state,
                   debounceTimeoutRef, clickTimeoutRef, hoverTimeoutRef, lastClickTimeRef>>

\* handleSegmentHover(cueId), for null, the id of the first cue and an id that no
\* cue has
handleSegmentHover ==
    /\ pc = "segmentHook"
    /\ timerCount < MaxTimeouts
    /\ \E cueId \in {"null", args.cues[1].id, TextId} :
          /\ event' = [handler |-> "handleSegmentHover", cueId |-> cueId, callbacks |-> <<>>]
          /\ IF cueId # "null" /\ InteractionConfigOf(args.config).enableHoverPreview
             THEN /\ state' = [state EXCEPT !.hoveredSegmentId = cueId]
                  /\ timers' = ClearTimeout(timers, hoverTimeoutRef) \cup
                               {[id       |-> timerCount + 1,
                                 due      |-> now + InteractionConfigOf(args.config).hoverDelay,
                                 callback |-> "onHoverPreview",
                                 cueId    |-> cueId]}
                  /\ timerCount' = timerCount + 1
                  /\ hoverTimeoutRef' = timerCount + 1
             ELSE /\ state' = [state EXCEPT !.hoveredSegmentId = cueId,
                                            !.isHoverPreviewActive = FALSE]
                  /\ timers' = ClearTimeout(timers, hoverTimeoutRef)
                  /\ UNCHANGED <<timerCount, hoverTimeoutRef>>
    /\ UNCHANGED <<pc, parserVars, stampVars, transformVars, callVars, now,
                   debounceTimeoutRef, clickTimeoutRef, lastClickTimeRef, lastCall>>

\* the callback of the hover timeout: cues.find(c => c.id === cueId)
HoverTimeout ==
    /\ pc = "segmentHook"
    /\ \E t \in timers :
          /\ IsNextDue(t)
          /\ t.callback = "onHoverPreview"
          /\ timers' = timers \ {t}
          /\ \E found \in {{i \in DOMAIN args.cues : args.cues[i].id = t.cueId}} :
                IF found # {}
                THEN /\ state' = [state EXCEPT !.isHoverPreviewActive = TRUE]
                     /\ event' = [handler   |-> "timeout",
                                  callbacks |-> <<[name |-> "onHoverPreview",
                                                   cue  |-> args.cues[SetMin(found)]]>>]
                ELSE /\ state' = state
                     /\ event' = [handler |-> "timeout", callbacks |-> <<>>]
    /\ UNCHANGED <<pc, parserVars, stampVars, transformVars, callVars, now, timerCount,
                   debounceTimeoutRef, clickTimeoutRef, hoverTimeoutRef, lastClickTimeRef,
                   lastCall>>

resetInteractionState ==
    /\ pc = "segmentHook"
    /\ state' = InitialInteractionState
    /\ timers' = ClearTimeout(ClearTimeout(timers, hoverTimeoutRef), clickTimeoutRef)
    /\ event' = [handler |-> "resetInteractionState", callbacks |-> <<>>]
    /\ lastCall' = [status |-> "reset", at |-> now, ran |-> 0]
    /\ UNCHANGED <<pc, parserVars, stampVars, transformVars, callVars, now, timerCount,
                   debounceTimeoutRef, clickTimeoutRef, hoverTimeoutRef, lastClickTimeRef>>

NextSegment ==
    \/ handleSegmentClick
    \/ handleSegmentDoubleClick
    \/ ClickTimeout
    \/ handleSegmentHover
    \/ HoverTimeout
    \/ resetInteractionState
    \/ Tick

SpecSegment == InitSegment /\ [][NextSegment]_vars

(***************************************************************************)
(* Properties of parseWebVTT and of the round trip through the serializer  *)
(***************************************************************************)
\* parseWebVTT has returned data
Returned == pc \in {"done", "serialized", "reparsed"}

\* parseWebVTT has run on the document, at least up to the scan loop
Entered == pc \in {"scan", "failed", "done", "serialized", "reparsed"}

\* the largest endTime of a non-empty sequence of cues
MaxEnd(cs) ==
    cs[CHOOSE i \in DOMAIN cs : \A j \in DOMAIN cs : DblLeq(cs[j].endTime, cs[i].endTime)].endTime

\* what the law of the idempotent re-parse compares
Tuples(cs) ==
    [i \in DOMAIN cs |-> <<cs[i].startTime, cs[i].endTime, cs[i].text, cs[i].speaker>>]

\* where the block that the next scan reads starts: the first line at or after the
\* cursor that is not blank (Len(lines) if there is none)
BlockStart ==
    IF \E i \in currentLine..(Len(lines) - 1) : Trim(lines[i + 1]) # <<>>
    THEN CHOOSE i \in currentLine..(Len(lines) - 1) :
             /\ Trim(lines[i + 1]) # <<>>
             /\ \A k \in currentLine..(i - 1) : Trim(lines[k + 1]) = <<>>
    ELSE Len(lines)

\* the indices at which a line of the set L stands as the would-be timing line of
\* the block read next: as its first line, or as the line after an identifier line
WouldBeTiming(L) ==
    {t \in {BlockStart, BlockStart + 1} :
        /\ t < Len(lines)
        /\ lines[t + 1] \in L
        /\ t = BlockStart + 1 => lines[BlockStart + 1] = TextId}

\* the scan loop is about to read a block
Scanning == pc = "scan" /\ currentLine < Len(lines)

\* the timing lines of the documents with start >= end, both timestamps valid
ReversedTimings == {Blocks.equal[1], Blocks.reversed[2]}

\* the timing-shaped lines of the documents with an invalid timestamp
BadStampTimings == {Blocks.badMinutes[1], Blocks.badSeconds[2]}

\* the lines of the documents with a single-dash arrow
DashTimings == {Blocks.dash[1]}

\* C1: the cues that parseWebVTT returns are in non-decreasing order of startTime,
\* whatever the order of the cue blocks in the document
C1_SortedByStart ==
    Returned =>
        \A i, j \in DOMAIN result.cues :
            i < j => DblLeq(result.cues[i].startTime, result.cues[j].startTime)

\* a document whose cue blocks were out of order has been parsed
C1_Witness ==
    /\ pc = "done"
    /\ \E i \in 1..(Len(cues) - 1) : DblLess(cues[i + 1].startTime, cues[i].startTime)

\* C2, as claimed: parsing the serialization of parse(doc) succeeds and yields the
\* same (startTime, endTime, text, speaker) tuples as parse(doc)
C2_ReparseSameTuples ==
    pc = "reparsed" => reparsed.ok /\ Tuples(reparsed.cues) = Tuples(result.cues)

\* C3, as claimed: the duration is the largest endTime of the returned cues, 0 when
\* no cue is returned
C3_DurationIsMaxEnd ==
    Returned =>
        result.duration = IF result.cues = <<>> THEN DblOfInt(0) ELSE MaxEnd(result.cues)

\* C3, amended: the duration is 0 when no cue is returned; otherwise it is the
\* endTime of a returned cue that starts latest, so it is at most the largest
\* endTime, and it is the largest endTime when no cue ends before a cue that
\* starts no later than it
C3_DurationOfLatestStart ==
    Returned =>
        IF result.cues = <<>> THEN result.duration = DblOfInt(0)
        ELSE /\ \E i \in DOMAIN result.cues :
                   /\ result.duration = result.cues[i].endTime
                   /\ \A j \in DOMAIN result.cues :
                          DblLeq(result.cues[j].startTime, result.cues[i].startTime)
             /\ DblLeq(result.duration, MaxEnd(result.cues))
             /\ (\A i, j \in DOMAIN result.cues :
                     DblLeq(result.cues[i].startTime, result.cues[j].startTime)
                         => DblLeq(result.cues[i].endTime, result.cues[j].endTime))
                    => result.duration = MaxEnd(result.cues)

\* two cues were returned and the one that starts first ends last
C3_Witness ==
    /\ pc = "done"
    /\ Len(result.cues) = 2
    /\ DblLess(result.cues[2].endTime, result.cues[1].endTime)
    /\ result.duration = result.cues[2].endTime

\* the endTime of the cue that is last once cs is sorted by startTime (cues of
\* equal startTime keep their order), 0 for no cue
LastEndAfterSort(cs) ==
    IF cs = <<>> THEN DblOfInt(0)
    ELSE cs[CHOOSE i \in DOMAIN cs :
                \A j \in DOMAIN cs :
                    \/ DblLess(cs[j].startTime, cs[i].startTime)
                    \/ (cs[j].startTime = cs[i].startTime /\ j <= i)].endTime

\* C4, as claimed: the duration reported by parseWebVTT and by textToTranscriptData
\* is the endTime of the last cue of the returned collection after it has been
\* sorted by startTime, 0 if the collection is empty
C4_DurationIsLastEndAfterSort ==
    /\ Returned => result.duration = LastEndAfterSort(result.cues)
    /\ (pc = "transformed" /\ transformed.ok) =>
           transformed.duration = LastEndAfterSort(transformed.cues)

\* C7: a document whose first line does not begin with WEBVTT makes parseWebVTT
\* fail with line 1; no cue and no warning is produced, whatever follows
C7_MissingHeaderFails ==
    (Entered /\ ~StartsWith(vttString, Signature)) =>
        /\ pc = "failed"
        /\ result = [ok |-> FALSE, line |-> 1]
        /\ cues = <<>>
        /\ warnings = <<>>

\* a document without the signature but with two blocks after its first line failed
C7_Witness ==
    /\ pc = "failed"
    /\ ~StartsWith(vttString, Signature)
    /\ Len(SplitLines(vttString)) > 6

\* C8: when the block read next has a timing line with start >= end (equality
\* included), the scan fails with the 1-based number of that line, and nothing is
\* returned, also after valid blocks
C8_ReversedTimingFails ==
    [][Scanning =>
          \A t \in WouldBeTiming(ReversedTimings) :
              pc' = "failed" /\ result' = [ok |-> FALSE, line |-> t + 1]]_vars

\* the parse failed at a timing line with start = end, after a valid cue
C8_Witness ==
    /\ pc = "failed"
    /\ Len(cues) >= 1
    /\ result.line >= 2
    /\ lines[result.line] = Blocks.equal[1]

\* C9: when the block read next has a timing-shaped line with an invalid timestamp
\* (minutes or seconds of 60 or more), the scan fails with the 1-based number of
\* that line
C9_BadTimestampFails ==
    [][Scanning =>
          \A t \in WouldBeTiming(BadStampTimings) :
              pc' = "failed" /\ result' = [ok |-> FALSE, line |-> t + 1]]_vars

\* the parse failed at a timing line with minutes out of range, after another block
C9_Witness ==
    /\ pc = "failed"
    /\ result.line >= 5
    /\ lines[result.line] = Blocks.badMinutes[1]

\* C10, as claimed: when the would-be timing line of the block read next has a
\* single-dash arrow, as the first line of the block or after an identifier line,
\* the scan fails
C10_DashTimingFails ==
    [][Scanning => \A t \in WouldBeTiming(DashTimings) : pc' = "failed"]_vars

(***************************************************************************)
(* Properties of the timestamp functions                                   *)
(***************************************************************************)
\* the whole number of milliseconds nearest to a double
NearestMillis(d) ==
    d.i * 1000 + MulFrac(d.f, 1000).n + BitAt(MulFrac(d.f, 1000).f, 1)

\* C5, as claimed: parsing the text formatted for a value of whole milliseconds
\* succeeds and returns the value (up to the rounding of the floating point)
C5_StampRoundTrip ==
    pc = "roundtrip" => parsedStamp.ok /\ NearestMillis(parsedStamp.v) = millis

\* the parts of a token around its colons and its dot
TokenFields(t) ==
    [k \in 1..Len(SplitOn(t, <<":">>)) |->
        IF k < Len(SplitOn(t, <<":">>)) THEN SplitOn(t, <<":">>)[k]
        ELSE SplitOn(SplitOn(t, <<":">>)[k], <<".">>)[1]]

\* [H|HH:]MM:SS.mmm: hours optional of 1-2 digits, minutes and seconds of exactly
\* 2 digits and under 60, milliseconds of exactly 3 digits
WellFormedToken(t) ==
    /\ Len(SplitOn(t, <<":">>)) \in {2, 3}
    /\ Len(SplitOn(SplitOn(t, <<":">>)[Len(SplitOn(t, <<":">>))], <<".">>)) = 2
    /\ \A k \in DOMAIN TokenFields(t) : AllDigits(TokenFields(t)[k])
    /\ Len(SplitOn(t, <<":">>)) = 3 => Len(TokenFields(t)[1]) \in {1, 2}
    /\ Len(TokenFields(t)[Len(TokenFields(t)) - 1]) = 2
    /\ Len(TokenFields(t)[Len(TokenFields(t))]) = 2
    /\ ParseInt(TokenFields(t)[Len(TokenFields(t)) - 1]) < 60
    /\ ParseInt(TokenFields(t)[Len(TokenFields(t))]) < 60
    /\ Len(SplitOn(t, <<".">>)[Len(SplitOn(t, <<".">>))]) = 3
    /\ AllDigits(SplitOn(t, <<".">>)[Len(SplitOn(t, <<".">>))])

\* hours*3600 + minutes*60 + seconds + milliseconds/1000 of a well-formed token, in
\* milliseconds
TokenMillis(t) ==
    (IF Len(TokenFields(t)) = 3 THEN ParseInt(TokenFields(t)[1]) * 3600000 ELSE 0)
    + ParseInt(TokenFields(t)[Len(TokenFields(t)) - 1]) * 60000
    + ParseInt(TokenFields(t)[Len(TokenFields(t))]) * 1000
    + ParseInt(SplitOn(t, <<".">>)[Len(SplitOn(t, <<".">>))])

\* C6, as claimed: a token is accepted if and only if it has the form
\* [H|HH:]MM:SS.mmm with minutes and seconds of exactly 2 digits and under 60, and
\* the value returned for it is hours*3600 + minutes*60 + seconds + milliseconds/1000
C6_AcceptsExactlyWellFormed ==
    pc = "parsed" =>
        /\ parsedStamp.ok <=> WellFormedToken(timestamp)
        /\ parsedStamp.ok => NearestMillis(parsedStamp.v) = TokenMillis(timestamp)

(***************************************************************************)
(* Properties of the scan loop: skipped content, warnings, ids, speakers   *)
(***************************************************************************)
\* the block read next has no line of the timing pattern among its first two lines
NoTimingAhead ==
    /\ Scanning
    /\ BlockStart < Len(lines)
    /\ \A t \in {BlockStart, BlockStart + 1} : t < Len(lines) => ~isTimingLine(lines[t + 1])

\* the index of the first blank line after the start of the block read next,
\* Len(lines) if there is none
BlockEnd ==
    IF \E i \in BlockStart..(Len(lines) - 1) : Trim(lines[i + 1]) = <<>>
    THEN CHOOSE i \in BlockStart..(Len(lines) - 1) :
             /\ Trim(lines[i + 1]) = <<>>
             /\ \A k \in BlockStart..(i - 1) : Trim(lines[k + 1]) # <<>>
    ELSE Len(lines)

\* the scan step moves past the block read next and produces nothing
SkipsBlock ==
    /\ pc' = "scan"
    /\ currentLine' = BlockEnd + 1
    /\ cues' = cues
    /\ warnings' = warnings
    /\ result' = result

\* a line that starts with digits and has, after them, a single-dash arrow with a
\* digit somewhere behind it
LooksLikeTiming(line) ==
    \E d \in DOMAIN line :
        /\ IsDigit(line[d])
        /\ \A k \in 1..(d - 1) : IsSpace(line[k])
        /\ \E a \in (d + 1)..(Len(line) - 1) :
               /\ line[a] = "-"
               /\ line[a + 1] = ">"
               /\ \E e \in (a + 2)..Len(line) : IsDigit(line[e])

\* C11, as claimed: a block with no timing line among its first two lines is skipped
\* up to the next blank line or the end of input with no error, cue or warning,
\* whatever it contains
C11_NonCueNeverFatal == [][NoTimingAhead => SkipsBlock]_vars

\* C11, amended: such a block is skipped with no error, cue or warning unless its
\* first line looks like an attempted timing line (digits, then "->", then a
\* digit); then parseWebVTT fails with the 1-based number of that line
C11_NonCueSkippedUnlessMalformed ==
    [][NoTimingAhead =>
          IF LooksLikeTiming(lines[BlockStart + 1])
          THEN /\ pc' = "failed"
               /\ result' = [ok |-> FALSE, line |-> BlockStart + 1]
          ELSE SkipsBlock]_vars

\* the NOTE block that follows the header was skipped: the scan is past it and
\* there is no cue and no warning
C11_Witness ==
    /\ pc = "scan"
    /\ AfterHeader(lines) < Len(lines)
    /\ lines[AfterHeader(lines) + 1] = Blocks.note[1]
    /\ currentLine > AfterHeader(lines)
    /\ cues = <<>>
    /\ warnings = <<>>

\* the index of the timing line of the block read next: its first line, or its
\* second line after an identifier line; -1 if neither fits the timing pattern
TimingIndex ==
    IF BlockStart >= Len(lines) THEN -1
    ELSE IF isTimingLine(lines[BlockStart + 1]) THEN BlockStart
    ELSE IF BlockStart + 1 < Len(lines) /\ isTimingLine(lines[BlockStart + 2])
         THEN BlockStart + 1
    ELSE -1

\* the block read next is a cue block (its timing line is valid) with no text: the
\* timing line is followed by a blank line or by the end of input
EmptyCueAhead ==
    /\ Scanning
    /\ TimingIndex # -1
    /\ lines[TimingIndex + 1] \notin ReversedTimings \cup BadStampTimings
    /\ TimingIndex + 1 < Len(lines) => Trim(lines[TimingIndex + 2]) = <<>>

\* C12: a cue block whose timing line is followed by a blank line or the end of
\* input does not make the parse fail; it adds exactly one warning, citing the
\* 1-based line number of the timing line, and a cue with empty text; no other
\* block adds a warning, and the warnings returned are the ones so collected, so
\* their number is the number of such blocks
C12_EmptyCueWarns ==
    [][/\ EmptyCueAhead =>
              /\ pc' = "scan"
              /\ warnings' = Append(warnings, TimingIndex + 1)
              /\ Len(cues') = Len(cues) + 1
              /\ cues'[Len(cues')].text = <<>>
       /\ (Scanning /\ ~EmptyCueAhead) => warnings' = warnings
       /\ (pc = "scan" /\ pc' = "done") => result'.warnings = warnings]_vars

\* a document with two cue blocks without text was parsed: two warnings, each
\* citing the line of its timing line, and two cues with empty text
C12_Witness ==
    /\ pc = "done"
    /\ Len(result.warnings) = 2
    /\ Len(result.cues) = 2
    /\ \A i \in 1..2 :
           /\ result.cues[i].text = <<>>
           /\ lines[result.warnings[i]] = Blocks.empty[1]

\* the block read next is a cue block: it has a timing line and the line is valid
CueAhead ==
    /\ Scanning
    /\ TimingIndex # -1
    /\ lines[TimingIndex + 1] \notin ReversedTimings \cup BadStampTimings

\* bs holds the elements of as, each as often, in some order
IsPermutation(as, bs) ==
    /\ Len(as) = Len(bs)
    /\ \E f \in [DOMAIN as -> DOMAIN bs] :
           /\ \A i, j \in DOMAIN as : f[i] = f[j] => i = j
           /\ \A i \in DOMAIN as : bs[f[i]] = as[i]

\* C13: a cue block with an identifier line gives a cue whose id is that line,
\* trimmed; a cue block that starts with its timing line gives a cue whose id is
\* cue-<n>, n the number of cues parsed before it; the final sort moves the cues
\* and leaves their ids as they are
C13_IdsInParseOrder ==
    [][/\ CueAhead =>
              /\ Len(cues') = Len(cues) + 1
              /\ cues'[Len(cues')].id =
                     IF TimingIndex = BlockStart
                     THEN <<"c", "u", "e", "-">> \o NatToString(Len(cues))
                     ELSE Trim(lines[BlockStart + 1])
       /\ (pc = "scan" /\ pc' = "done") => IsPermutation(cues, result'.cues)]_vars

\* the cue returned first was parsed second, and a cue with an identifier line
\* was returned as well
C13_Witness ==
    /\ pc = "done"
    /\ Len(result.cues) = 2
    /\ result.cues[1].id = <<"c", "u", "e", "-", "1">>
    /\ result.cues[2].id = TextId

(***************************************************************************)
(* Properties of the speaker extraction                                    *)
(***************************************************************************)
\* the index of the > that closes a voice tag at the start of t (<v, white space,
\* a name of at least one character without >, then >), 0 if t starts with none
VoiceTagEnd(t) ==
    IF /\ Len(t) >= 5
       /\ t[1] = "<"
       /\ t[2] = "v"
       /\ IsSpace(t[3])
       /\ \E g \in 5..Len(t) : t[g] = ">"
    THEN CHOOSE g \in 5..Len(t) : t[g] = ">" /\ \A k \in 3..(g - 1) : t[k] # ">"
    ELSE 0

\* the index of the first colon of t, 0 if t has none
FirstColon(t) ==
    IF \E c \in DOMAIN t : t[c] = ":"
    THEN CHOOSE c \in DOMAIN t : t[c] = ":" /\ \A k \in 1..(c - 1) : t[k] # ":"
    ELSE 0

\* the cue text and speaker by the rules of the claim, surrounding white space
\* dropped from both; minPrefix is the least length of a colon prefix that counts
BySpeakerRules(t, minPrefix) ==
    IF VoiceTagEnd(t) # 0
    THEN [text    |-> Trim(SubSeq(t, VoiceTagEnd(t) + 1, Len(t))),
          speaker |-> [has |-> TRUE, name |-> Trim(SubSeq(t, 4, VoiceTagEnd(t) - 1))]]
    ELSE IF /\ FirstColon(t) # 0
            /\ FirstColon(t) - 1 >= minPrefix
            /\ FirstColon(t) - 1 < 50
         THEN [text    |-> Trim(SubSeq(t, FirstColon(t) + 1, Len(t))),
               speaker |-> [has |-> TRUE, name |-> Trim(SubSeq(t, 1, FirstColon(t) - 1))]]
    ELSE [text |-> Trim(t), speaker |-> [has |-> FALSE, name |-> <<>>]]

\* the cue has the text and speaker of the record r
SpeakerIs(r) == returned.text = r.text /\ returned.speaker = r.speaker

\* C14, as claimed: a voice tag at the start gives the speaker and the remainder is
\* the text, colon or not; otherwise a colon whose prefix is shorter than 50
\* characters gives the speaker and what follows is the text; otherwise there is no
\* speaker and the text is unchanged
C14_SpeakerFirstMatchWins ==
    pc = "speakerDone" => SpeakerIs(BySpeakerRules(args, 0))

\* C14, amended: the same, the colon rule applying only when the prefix before the
\* first colon has at least one character
C14_SpeakerFirstMatchNonEmptyPrefix ==
    pc = "speakerDone" => SpeakerIs(BySpeakerRules(args, 1))

\* the text began with a voice tag and went on with a colon: the tag gave the
\* speaker and the colon stayed in the text
C14_Witness ==
    /\ pc = "speakerDone"
    /\ args = <<"<", "v", " ", "A", "l", ">", "x", ":", " ", "y">>
    /\ returned.speaker = [has |-> TRUE, name |-> <<"A", "l">>]
    /\ returned.text = <<"x", ":", " ", "y">>

(***************************************************************************)
(* Properties of the cues of every entry point                             *)
(***************************************************************************)
\* 0 <= startTime < endTime for every cue of cs
SpansValid(cs) ==
    \A i \in DOMAIN cs :
        /\ DblLeq(DblOfInt(0), cs[i].startTime)
        /\ DblLess(cs[i].startTime, cs[i].endTime)

\* C15, as claimed: every cue returned by parseWebVTT, textToTranscriptData or
\* createCuesWithCustomTiming has 0 <= startTime < endTime, for every input and
\* option value the entry point accepts
C15_CueSpansValid ==
    /\ Returned => SpansValid(result.cues)
    /\ (pc = "transformed" /\ transformed.ok) => SpansValid(transformed.cues)
    /\ (pc = "customDone" /\ returned.ok) => SpansValid(returned.cues)

(***************************************************************************)
(* Properties of the text transformer                                      *)
(***************************************************************************)
\* the number of cue blocks of a serialization: one timing line for each
CueCount(w) == Cardinality(Occurrences(w, Arrow))

InvalidOptions ==
    /\ "segmentDuration" \in DOMAIN args.options
    /\ args.options.segmentDuration <= 0

\* C17, as claimed: textToTranscriptData and textToWebVTT called with an invalid
\* option value, such as a negative segmentDuration, raise an error and return no
\* cues
C17_InvalidOptionFails ==
    (pc \in {"dataDone", "webvttDone"} /\ InvalidOptions) => ~returned.ok

\* the segment duration the call works with
CallDuration == ConfigOf(args.options).segmentDuration

\* C18, as claimed: for text transformed with segment duration d, the i-th cue
\* (0-based) has id cue-i, startTime i*d and endTime (i+1)*d; the end of each cue
\* is the start of the next, start times strictly increase, and the duration is
\* the number of cues times d
C18_ContiguousSegments ==
    (pc = "dataDone" /\ returned.ok) =>
        /\ \A k \in DOMAIN returned.cues :
               /\ returned.cues[k].id = <<"c", "u", "e", "-">> \o NatToString(k - 1)
               /\ returned.cues[k].startTime = DblOfInt((k - 1) * CallDuration)
               /\ returned.cues[k].endTime = DblOfInt(k * CallDuration)
        /\ \A k \in 1..(Len(returned.cues) - 1) :
               /\ returned.cues[k].endTime = returned.cues[k + 1].startTime
               /\ DblLess(returned.cues[k].startTime, returned.cues[k + 1].startTime)
        /\ returned.duration = DblOfInt(Len(returned.cues) * CallDuration)

\* the word budget of the claim for a whole segment duration d:
\* round(d / 60 * 150), halves rounded up
BudgetOf(d) == (5 * d + 1) \div 2

\* the sentences of each paragraph of the trimmed text of the call
ParagraphSentences ==
    LET t     == Trim(args.text)
        paras == SelectSeq(SplitAtSpans(t, ParagraphBreaks(t)), NonBlank)
    IN  [p \in DOMAIN paras |-> splitIntoSentences(paras[p])]

\* the runs <<first, last>> that the cuts (a set of sentence numbers, a run ending
\* after each) make of n sentences
RunsOf(n, cuts) ==
    [j \in 1..(Cardinality(cuts) + 1) |->
        <<IF j = 1 THEN 1 ELSE Nth(cuts, j - 1) + 1,
          IF j = Cardinality(cuts) + 1 THEN n ELSE Nth(cuts, j)>>]

\* the words of the sentences run[1]..run[2] of ss together
RECURSIVE RunWords(_, _)
RunWords(ss, run) ==
    IF run[1] > run[2] THEN 0
    ELSE Len(Words(ss[run[1]])) + RunWords(ss, <<run[1] + 1, run[2]>>)

\* the sentences run[1]..run[2] of ss, a space between two
RECURSIVE RunText(_, _)
RunText(ss, run) ==
    IF run[1] = run[2] THEN ss[run[1]]
    ELSE ss[run[1]] \o <<" ">> \o RunText(ss, <<run[1] + 1, run[2]>>)

\* the cuts are greedy for the budget b: a run of two or more sentences has at most
\* b words, and a run with the first sentence of the next run has more than b
GreedyCuts(ss, cuts, b) ==
    LET runs == RunsOf(Len(ss), cuts)
    IN  /\ \A j \in DOMAIN runs : runs[j][2] > runs[j][1] => RunWords(ss, runs[j]) <= b
        /\ \A j \in 1..(Len(runs) - 1) :
               RunWords(ss, runs[j]) + Len(Words(ss[runs[j + 1][1]])) > b

\* the segments that greedy cuts make of the sentences ss
GreedySegments(ss, b) ==
    LET cuts == CHOOSE c \in SUBSET (1..(Len(ss) - 1)) : GreedyCuts(ss, c, b)
        runs == RunsOf(Len(ss), cuts)
    IN  [j \in DOMAIN runs |-> RunText(ss, runs[j])]

C20_CustomTimingPerSegment ==
    pc = "customDone" =>
        /\ returned.ok <=> Len(args.textSegments) = Len(args.timings)
        /\ returned.ok =>
               /\ Len(returned.cues) = Len(args.textSegments)
               /\ \A k \in DOMAIN returned.cues :
                      /\ returned.cues[k].id = <<"c", "u", "e", "-">> \o NatToString(k - 1)
                      /\ returned.cues[k].startTime = DblOfInt(args.timings[k].start)
                      /\ returned.cues[k].endTime = DblOfInt(args.timings[k].end)
                      /\ "speakerDetection" \in DOMAIN args.options =>
                             returned.cues[k].text = Trim(args.textSegments[k])

\* both outcomes: two cues for two segments and two timings that differ, and an
\* error for one segment and two timings
C20_Witness ==
    /\ pc = "customDone"
    /\ Len(args.timings) = 2
    /\ \/ /\ Len(args.textSegments) = 2
          /\ args.timings[1] # args.timings[2]
          /\ args.textSegments[1] # args.textSegments[2]
          /\ returned.ok
          /\ Len(returned.cues) = 2
       \/ /\ Len(args.textSegments) = 1
          /\ ~returned.ok

(***************************************************************************)
(* Properties of transcriptDataToWebVTT                                    *)
(***************************************************************************)
\* C21: the serializer writes an identifier line only for a cue whose id is not
\* cue-<index>, so that the cue-<n> ids that the parser generated are never written:
\* when no line of the document begins with cue-, no line of the serialization of
\* the returned cues does
C21_GeneratedIdsNotWritten ==
    (/\ pc \in {"serialized", "reparsed"}
     /\ \A l \in Range(SplitLines(vttString)) : ~StartsWith(l, <<"c", "u", "e", "-">>))
        => \A l \in Range(SplitLines(webvtt)) : ~StartsWith(l, <<"c", "u", "e", "-">>)

(***************************************************************************)
(* Properties of the transcript search                                     *)
(***************************************************************************)
\* C24: the result list of a search, by searchTranscriptCues of the hook and by
\* searchCues of the TranscriptSearch component, has at most maxResults entries
C24_AtMostMaxResults ==
    pc \in {"hookSearchDone", "componentSearchDone"} =>
        Len(returned.results) <= SearchConfigOf(args.config).maxResults

(***************************************************************************)
(* Properties of useTranscriptSearch                                       *)
(***************************************************************************)
\* the onResultsChange invocations of the handler or timeout that ran last
ResultsChanges == SelectSeq(event.callbacks, LAMBDA c : c.name = "onResultsChange")

DebounceDelay == SearchConfigOf(args.config).debounceDelay

\* C22: after a setQuery call that no other call has followed yet, no search runs
\* before debounceDelay has passed, and when more than debounceDelay has passed the
\* search has run exactly once; a search runs only in the timeout, debounceDelay
\* after the last setQuery call, and invokes onResultsChange once, with the query
\* of that call and the results for it: a search for the query of an earlier call
\* of the sequence never runs
C22_DebouncedSearchRunsOnce ==
    pc = "searchHook" =>
        /\ lastCall.status = "set" =>
               /\ now < lastCall.at + DebounceDelay => lastCall.ran = 0
               /\ now > lastCall.at + DebounceDelay => lastCall.ran = 1
               /\ lastCall.ran <= 1
        /\ event.handler # "timeout" => ResultsChanges = <<>>
        /\ event.handler = "timeout" =>
               /\ lastCall.status = "set"
               /\ now = lastCall.at + DebounceDelay
               /\ Len(ResultsChanges) = 1
               /\ ResultsChanges[1].query = lastCall.query
               /\ ResultsChanges[1].results = state.results

\* the second of two setQuery calls came less than debounceDelay after the first,
\* and the one search has run, for a query with results
C22_Witness ==
    /\ pc = "searchHook"
    /\ timerCount = 2
    /\ lastCall.status = "set"
    /\ lastCall.at > StartTime
    /\ lastCall.at < StartTime + DebounceDelay
    /\ event.handler = "timeout"
    /\ lastCall.ran = 1
    /\ Len(state.results) > 1

\* what onCurrentResultChange was invoked with by the step, if that is all the
\* step invoked
InvokedCurrentResultChange(index) ==
    /\ Len(event'.callbacks) = 1
    /\ event'.callbacks[1].name = "onCurrentResultChange"
    /\ event'.callbacks[1].index = index
    /\ event'.callbacks[1].result = state.results[index + 1]

\* the step changes nothing of the hook but the record of the handler that ran
OnlyHandlerRan ==
    /\ event'.callbacks = <<>>
    /\ UNCHANGED <<state, timers, timerCount, debounceTimeoutRef, lastCall, now>>

\* C23: with n >= 1 results nextResult moves the current index from i to
\* (i + 1) mod n and prevResult from i to (i - 1) mod n, each invoking
\* onCurrentResultChange with the result moved to; with no results both leave the
\* state as it is and invoke no callback
C23_NavigationIsCyclic ==
    [][(pc = "searchHook" /\ event'.handler \in {"nextResult", "prevResult"}) =>
          IF Len(state.results) >= 1
          THEN \E newIndex \in {(state.currentResultIndex +
                                    (IF event'.handler = "nextResult" THEN 1 ELSE -1))
                                % Len(state.results)} :
                   /\ state' = [state EXCEPT !.currentResultIndex = newIndex]
                   /\ InvokedCurrentResultChange(newIndex)
          ELSE OnlyHandlerRan]_vars

\* nextResult has moved from the last of three results to the first, or
\* prevResult from the first to the last
C23_Witness ==
    /\ pc = "searchHook"
    /\ Len(state.results) > 2
    /\ \/ event.handler = "nextResult" /\ state.currentResultIndex = 0
       \/ event.handler = "prevResult" /\ state.currentResultIndex = Len(state.results) - 1

\* C26: currentResultIndex is -1 exactly when there are no results, and otherwise
\* an index of the result list; goToResult with an index outside the list leaves
\* the state as it is and invokes no callback
C26_CurrentIndexInRange ==
    /\ [](pc = "searchHook" =>
             IF state.results = <<>> THEN state.currentResultIndex = -1
             ELSE state.currentResultIndex \in 0..(Len(state.results) - 1))
    /\ [][(/\ pc = "searchHook"
           /\ event'.handler = "goToResult"
           /\ event'.index \notin 0..(Len(state.results) - 1)) => OnlyHandlerRan]_vars

\* goToResult has been given the index -1, and the index just past the results,
\* while there are results and the current one is not the first
C26_Witness ==
    /\ pc = "searchHook"
    /\ event.handler = "goToResult"
    /\ event.index \in {-1, Len(state.results)}
    /\ Len(state.results) > 1
    /\ state.currentResultIndex > 0

\* C27: from clearSearch until the next setQuery the state is the initial state,
\* and no search runs or delivers results, whatever was scheduled before
C27_ClearCancelsPendingSearch ==
    (pc = "searchHook" /\ lastCall.status = "cleared") =>
        /\ state = InitialSearchState
        /\ lastCall.ran = 0
        /\ ResultsChanges = <<>>

\* a search was pending when clearSearch ran, and the time at which it was due
\* has passed
C27_Witness ==
    /\ pc = "searchHook"
    /\ lastCall.status = "cleared"
    /\ timerCount = 1
    /\ lastCall.at < StartTime + DebounceDelay
    /\ now > lastCall.at + DebounceDelay

(***************************************************************************)
(* Properties of useSegmentInteraction                                     *)
(***************************************************************************)
\* the onSegmentClick invocations of the handler or timeout that ran last
SegmentClicks == SelectSeq(event.callbacks, LAMBDA c : c.name = "onSegmentClick")

\* C28: with enableDoubleClick on, onSegmentClick is invoked for the last accepted
\* click exactly once, DoubleClickWindow ms after it (not before, and once that
\* time has passed it has been), unless a double-click was handled while the
\* callback was pending or the hook was reset: the double-click invokes
\* onSegmentDoubleClick once, and onSegmentClick is never invoked for that click
C28_SingleClickDelayedOnce ==
    (pc = "segmentHook" /\ InteractionConfigOf(args.config).enableDoubleClick) =>
        /\ lastCall.status = "accepted" =>
               /\ now < lastCall.at + DoubleClickWindow => lastCall.ran = 0
               /\ now > lastCall.at + DoubleClickWindow => lastCall.ran = 1
               /\ lastCall.ran <= 1
        /\ Len(SegmentClicks) = 1 =>
               /\ lastCall.status = "accepted"
               /\ now = lastCall.at + DoubleClickWindow
               /\ SegmentClicks[1].cue = lastCall.cue
        /\ Len(SegmentClicks) <= 1
        /\ lastCall.status = "doubleClicked" => lastCall.ran = 0
        /\ event.handler = "handleSegmentDoubleClick" =>
               /\ Len(event.callbacks) = 1
               /\ event.callbacks[1].name = "onSegmentDoubleClick"

\* C29: a click that arrives less than clickDebounce ms after the last accepted
\* click invokes no callback and changes nothing: not the interaction state, not
\* the time of the last accepted click, and not the timeouts that are set, so that
\* a pending single-click callback stays in place
C29_RejectedClickHasNoEffect ==
    [][(/\ pc = "segmentHook"
        /\ event'.handler = "handleSegmentClick"
        /\ now - lastClickTimeRef < InteractionConfigOf(args.config).clickDebounce)
           => /\ event'.callbacks = <<>>
              /\ UNCHANGED <<state, timers, timerCount, clickTimeoutRef, hoverTimeoutRef,
                             lastClickTimeRef, lastCall, now>>]_vars

(***************************************************************************)
(* The round trip from text through textToWebVTT and parseWebVTT           *)
(***************************************************************************)
\* C25: for a text that is not blank and options that are valid, parseWebVTT of
\* textToWebVTT(text, options) succeeds and returns cues with the same
\* (startTime, endTime, text, speaker) tuples, in the same order, as the cues of
\* textToTranscriptData(text, options), also with speakerDetection disabled
C25_TextRoundTrip ==
    (pc = "roundTripDone" /\ ~InvalidOptions) =>
        /\ returned.parsed.ok
        /\ Tuples(returned.parsed.cues) =
               Tuples(textToTranscriptData(args.text, args.options).cues)

\* a scan of the loop that returned: the cursor was assigned the block's nextLine
ScanReturned == pc = "scan" /\ pc' = "scan" /\ currentLine < Len(lines)

\* the line that the scan reads ahead of the block's first line to tell an
\* identifier line from a timing line (the last line when there is none further)
LookaheadLine == Min2(BlockStart + 1, Len(lines) - 1)

\* C30: parseWebVTT terminates on every finite document.  In every state of the
\* scan loop with the cursor on a line of the document, the scan of the cue block
\* at the cursor throws or returns a cursor further on, so the loop never stays in
\* place; each scan that returns moves the cursor strictly forward, past the
\* block's first line and the one line read ahead of it, and no further than the
\* line after the first blank line that follows the block's first line, so that
\* the next scan starts on a line the scan before it has not read; the cursor
\* never exceeds the number of lines by more than one; and the loop is left for
\* the return exactly when the cursor is at or past the number of lines.
C30_ScanTerminates ==
    /\ [](pc = "scan" /\ currentLine < Len(lines) =>
            \E r \in {parseCueBlock(lines, currentLine)} :
                r.kind = "error" \/ r.nextLine > currentLine)
    /\ [](pc = "scan" => currentLine <= Len(lines) + 1)
    /\ [][ScanReturned =>
            /\ currentLine' > currentLine
            /\ currentLine' > LookaheadLine
            /\ \A i \in BlockStart..(currentLine' - 2) :
                   i < Len(lines) => Trim(lines[i + 1]) # <<>>]_vars
    /\ [][pc = "scan" /\ pc' # "scan" =>
            \/ pc' = "done" /\ currentLine >= Len(lines)
            \/ pc' = "failed" /\ currentLine < Len(lines)]_vars

\* a parse returned after three scans: a block with an identifier line, a run of
\* blank lines and skipped content were read, and the cursor is past the last line
C30_Witness ==
    /\ pc = "done"
    /\ Len(cues) = 1
    /\ cues[1].id = TextId
    /\ \E i \in 1..(Len(lines) - 2) : Trim(lines[i + 1]) = <<>> /\ Trim(lines[i + 2]) = <<>>
    /\ currentLine > Len(lines)

=============================================================================
